---- MODULE Spec2Model ----
(***************************************************************************)
(* Thermostat Boost: the boost lifecycle state machine with its durable    *)
(* timer, its scheduler / target-temperature snapshot stores and the       *)
(* start / finish orchestration, as a state machine over the integration's *)
(* coroutines.                                                             *)
(*                                                                         *)
(* Every coroutine is a stack of frames.  A step of the model resumes one  *)
(* suspended coroutine and runs it, through every call and return, up to   *)
(* its next suspension point: a store load or save, or a blocking service  *)
(* call.  The effect of the awaited operation is applied where it is       *)
(* invoked.  Time is counted in ticks of TickSeconds seconds.              *)
(***************************************************************************)
EXTENDS Integers, Sequences, FiniteSets, TLC

\* ------------------------------------------------------------------ bounds
MaxTime == 3
MaxOps == 2
MaxTimers == 3
MaxTasks == 1
MaxFaults == 1
MaxGets == 1

\* ------------------------------------------------------- program constants
TickSeconds == 1800
SecondsPerHour == 3600
SecondsPerMinute == 60
MaxMinute == 59
MaxSecond == 59

\* ------------------------------------------------------------- the universe
Inst == {"a", "b"}
Sw == {"s1", "s2"}
NoEnd == 0
NoTemp == 0
NoTimer == 0
\* The temperatures of the scenarios: the thermostat's target before a boost,
\* the setpoint a scheduler action applies (both in the thermostat's display
\* unit), and the two boost temperatures (the service argument, the
\* configured slider value) in Celsius.
Temp == [pre |-> 63, sched |-> 66, arg |-> 20, slider |-> 25]

\* The friendly name and the entity id of each instance's thermostat, and the
\* "tags" attribute of each scheduler switch, as sequences of characters.
ThermostatName == [a |-> <<"H", "a">>, b |-> <<"K">>]
ThermostatEntity == [a |-> <<"c", ".", "h", "a">>, b |-> <<"c", ".", "k">>]
SwTags ==
  [s1 |-> [kind |-> "str", v |-> <<"h", "a">>],
   s2 |-> [kind |-> "list", v |-> << <<"k">>, <<"x", "H", "A">> >>]]

EmptyMap == [s \in {} |-> "off"]
NoSnapshot == [has |-> FALSE, m |-> EmptyMap]

\* ---------------------------------------------------------------- variables
VARIABLES
  now,      \* the wall clock, in ticks
  celsius,  \* hass.config.units.temperature_unit is Celsius
  disk,     \* the three persisted documents: timer ends, scheduler and temperature snapshots
  ent,      \* the host's entity states: flags, numbers, thermostat targets, switches
  mem,      \* hass.data[DOMAIN]: registry, timers, guards and pending delayed callbacks
  tasks,    \* the coroutines in flight, each a stack of frames
  hist,     \* counters of what has happened since the last process start
  ops,      \* the number of user and environment operations so far
  ev        \* what the last step returned or dropped

vars == <<now, celsius, disk, ent, mem, tasks, hist, ops, ev>>

\* ------------------------------------------------------------ text helpers
Lower(c) ==
  CASE c = "H" -> "h"
    [] c = "A" -> "a"
    [] c = "K" -> "k"
    [] OTHER -> c

LowerStr(s) == [n \in 1..Len(s) |-> Lower(s[n])]

Contains(hay, needle) ==
  \E o \in 0..(Len(hay) - Len(needle)) :
    \A n \in 1..Len(needle) : hay[o + n] = needle[n]

_matches_tag(tags, thermostat_name_lower) ==
  CASE tags.kind = "none" -> FALSE
    [] tags.kind = "str" -> Contains(LowerStr(tags.v), thermostat_name_lower)
    [] tags.kind = "list" ->
         \E n \in 1..Len(tags.v) : Contains(LowerStr(tags.v[n]), thermostat_name_lower)
    [] OTHER -> FALSE

\* The duration inputs of start_boost: absent, a selector object, an HH:MM:SS
\* string split at ":" (each part an integer literal or not), or a value of
\* another type.
TimeNone == [kind |-> "none"]
TimeDict(h, m) == [kind |-> "dict", hours |-> h, minutes |-> m]
TimeStr(parts) == [kind |-> "str", parts |-> parts]
TimeOther == [kind |-> "other"]
P(n) == [int |-> TRUE, n |-> n]
NotInt == [int |-> FALSE, n |-> 0]
ParseError == [ok |-> FALSE, secs |-> 0]

\* _parse_duration_value: [ok, secs]; ok is FALSE where the code raises.
_parse_duration_value(value) ==
  LET parsed ==
        CASE value.kind = "dict" ->
               [ok |-> TRUE,
                secs |-> value.hours * SecondsPerHour + value.minutes * SecondsPerMinute]
          [] value.kind = "str" ->
               IF Len(value.parts) # 3 THEN ParseError
               ELSE IF \E n \in 1..3 : ~value.parts[n].int THEN ParseError
               ELSE IF \/ value.parts[2].n < 0 \/ value.parts[2].n > MaxMinute
                       \/ value.parts[3].n < 0 \/ value.parts[3].n > MaxSecond
                       \/ value.parts[1].n < 0 THEN ParseError
               ELSE [ok |-> TRUE,
                     secs |-> value.parts[1].n * SecondsPerHour
                                + value.parts[2].n * SecondsPerMinute + value.parts[3].n]
          [] OTHER -> ParseError
  IN IF parsed.ok /\ parsed.secs <= 0 THEN ParseError ELSE parsed

\* dt_util.as_timestamp and dt_util.utc_from_timestamp: the stored end is a
\* timestamp in seconds.
as_timestamp(end) == end * TickSeconds
utc_from_timestamp(ts) == ts \div TickSeconds

\* TemperatureConverter.convert from Celsius to the display unit.
ToDisplayUnit(c, isCelsius) == IF isCelsius THEN c ELSE (c * 9) \div 5 + 32

\* --------------------------------------------------- coroutines and frames
\* h is the program state while one coroutine runs: the variables, the
\* running coroutine h.cur, the coroutines it created (h.spawn), whether it
\* has reached an await (h.susp), whether an exception is propagating
\* (h.exc), the value just returned (h.ret), what it returned to its caller
\* (h.out), and whether the step needs more objects than the model has
\* (h.blocked).
Top(h) == h.cur.frames[Len(h.cur.frames)]
SetTop(h, f) == [h EXCEPT !.cur.frames[Len(h.cur.frames)] = f]
At(f, pc) == [f EXCEPT !.pc = pc]
Await(h, f) == [SetTop(h, f) EXCEPT !.susp = TRUE]
Call(h, f, callee) == [SetTop(h, f) EXCEPT !.cur.frames = Append(@, callee)]
Return(h, v) == [h EXCEPT !.cur.frames = SubSeq(@, 1, Len(@) - 1), !.ret = v]
Raise(h) == [h EXCEPT !.exc = TRUE]
Observe(h, o) == [h EXCEPT !.out = Append(@, o)]
Logged(h, c) == [h EXCEPT !.cur.calls = Append(@, c)]

\* Store.async_save is awaited: the document new replaces old; until the
\* save returns the coroutine holds both.
Saving(h, store, old, new) ==
  [h EXCEPT !.cur.saving = [set |-> TRUE, store |-> store, old |-> old, new |-> new]]

Saved(h, store, i, old, new) ==
  Observe(Saving(Logged(h, [svc |-> store, i |-> i, targets |-> {}, v |-> 0, ok |-> TRUE]),
                 store, old, new),
          [type |-> "saved", store |-> store, i |-> i, old |-> old, new |-> new])

\* What a start or finish read before it chose its steps.
NoDecision ==
  [read |-> FALSE, boost_was_active |-> FALSE, override |-> FALSE,
   no_schedules |-> FALSE, has |-> FALSE]

\* No save of a store is awaited.
NoSave == [set |-> FALSE]

NewTask(frame, via) ==
  [frames |-> <<frame>>, root |-> frame, via |-> via, alone |-> TRUE,
   begun |-> FALSE, calls |-> <<>>, ok |-> TRUE, wait |-> "store",
   call |-> [svc |-> "none", i |-> "a", targets |-> {}, v |-> 0], path |-> "none",
   d |-> 0, dec |-> NoDecision,
   pre |-> [set |-> FALSE], saving |-> NoSave]

F_set_end(i, end) == [fn |-> "async_set_end", pc |-> "entry", i |-> i, end |-> end]
F_get_timer(i) == [fn |-> "async_get_timer", pc |-> "entry", i |-> i, k |-> NoTimer]
F_cancel(k) == [fn |-> "async_cancel", pc |-> "entry", k |-> k, before |-> <<>>]
F_tfinish(k, exp) ==
  [fn |-> "async_finish", pc |-> "entry", k |-> k, exp |-> exp, ended |-> NoEnd]
F_tstart(k, d) ==
  [fn |-> "async_start", pc |-> "entry", k |-> k, d |-> d, at |-> 0, fired |-> 0]
F_finish(i, exp) ==
  [fn |-> "finish_boost", pc |-> "entry", i |-> i, exp |-> exp, k |-> NoTimer,
   override |-> FALSE, no_schedules |-> FALSE, has |-> FALSE]
F_start(i, time, temperature_c) ==
  [fn |-> "start_boost", pc |-> "entry", i |-> i, time |-> time,
   temperature_c |-> temperature_c, k |-> NoTimer, boost_was_active |-> FALSE,
   override |-> FALSE, d |-> 0]
F_sensor(i) ==
  [fn |-> "async_added_to_hass", pc |-> "entry", i |-> i, restored_end |-> NoEnd,
   k |-> NoTimer]
F_ovon(i) == [fn |-> "override_turn_on", pc |-> "entry", i |-> i]
F_ovoff(i) == [fn |-> "override_turn_off", pc |-> "entry", i |-> i]
F_remove(i) ==
  [fn |-> "remove_entry", pc |-> "entry", i |-> i, data |-> <<>>, had |-> FALSE]
F_rtemp(i) == [fn |-> "restore_temp", pc |-> "entry", i |-> i, data |-> <<>>]
F_ttemp(i) ==
  [fn |-> "store_temp", pc |-> "entry", i |-> i, data |-> <<>>, temperature |-> NoTemp]
F_scene(i, name) ==
  [fn |-> "create_scene", pc |-> "entry", i |-> i, name |-> name, data |-> <<>>,
   on |-> <<>>, avail |-> <<>>, prior |-> NoSnapshot,
   snapshot |-> EmptyMap]
F_rsched(i, exp, skip) ==
  [fn |-> "restore_sched", pc |-> "entry", i |-> i, exp |-> exp, skip |-> skip,
   data |-> <<>>, todo |-> <<>>, n0 |-> 0, snapshot |-> NoSnapshot, on |-> FALSE]

\* ------------------------------------------------------------- BoostTimer
NewTimer(i, end) ==
  [inst |-> i, end |-> end, armed |-> FALSE, armedAt |-> NoEnd, listening |-> FALSE,
   unloaded |-> FALSE, cancelled |-> FALSE]

_cancel_schedule(h, k) == [h EXCEPT !.mem.tobj[k].armed = FALSE]

\* A schedule step that arms nothing.
_schedule_finish_idle(h, k) == _cancel_schedule(h, k)

_schedule_finish(h, k) ==
  LET h1 == _cancel_schedule(h, k)
  IN IF h1.mem.tobj[k].end = NoEnd THEN h1
     ELSE [h1 EXCEPT !.mem.tobj[k].armed = TRUE,
                     !.mem.tobj[k].armedAt = h1.mem.tobj[k].end]

\* BoostTimer.snapshot
snapshot(timer, t) ==
  IF timer.end = NoEnd \/ timer.end <= t
  THEN [remaining |-> 0, status |-> "idle", end |-> timer.end]
  ELSE [remaining |-> timer.end - t, status |-> "active", end |-> timer.end]

\* BoostFinishSensor._handle_timer_update: the sensor shows the timer's end.
_handle_timer_update(h, k) ==
  [h EXCEPT !.ent.sensorEnd[h.mem.tobj[k].inst] = snapshot(h.mem.tobj[k], h.now).end]

\* BoostTimer._notify: the attached sensor, if any, is the one listener.
_notify(h, k) == IF h.mem.tobj[k].listening THEN _handle_timer_update(h, k) ELSE h

\* BoostTimer._handle_finish, the due-time callback.
_handle_finish(h, k, t) ==
  IF h.mem.tobj[k].end = NoEnd THEN h
  ELSE IF t >= h.mem.tobj[k].end
       THEN [h EXCEPT !.spawn = Append(@, NewTask(F_tfinish(k, FALSE), "due"))]
       ELSE h

\* ------------------------------------------------------------ TimerRegistry
IsEmptyDoc(doc) == \A i \in Inst : doc[i] = NoEnd
EmptyDoc == [i \in Inst |-> NoEnd]

\* TimerRegistry.async_initialize up to its await: with the map not loaded
\* yet the store's load is awaited.  Overlapping loads of the registry's one
\* Store object are served by its load in progress, so they complete with
\* the same document object.
InitializeCall(h, f) ==
  LET h1 == IF h.mem.regLoad.active THEN h
            ELSE [h EXCEPT !.mem.regLoad = [active |-> TRUE, doc |-> h.disk.timer]]
  IN Await(h1, At(f, "init_load"))

\* TimerRegistry.async_initialize after its await: self._data = loaded or {}.
\* A non-empty document is the one object every waiter gets; an empty one is
\* replaced by a new dictionary by each waiter.
\* async_initialize with every waiter given a copy of its own of the loaded
\* document.
InitializeDone_copy(h) ==
  Observe([h EXCEPT !.mem.regInit = TRUE, !.mem.regData = h.mem.regLoad.doc],
          [type |-> "initialized", first |-> ~h.mem.regInit, before |-> h.mem.regData])

InitializeDone(h) ==
  Observe(IF IsEmptyDoc(h.mem.regLoad.doc)
          THEN [h EXCEPT !.mem.regInit = TRUE, !.mem.regData = EmptyDoc]
          ELSE IF h.mem.regInit THEN h
               ELSE [h EXCEPT !.mem.regInit = TRUE, !.mem.regData = h.mem.regLoad.doc],
          [type |-> "initialized", first |-> ~h.mem.regInit, before |-> h.mem.regData])

\* TimerRegistry.async_set_end after initialize: mutate the map and save it.
SetEndWrite(h, f) ==
  LET data == [h.mem.regData EXCEPT
                 ![f.i] = IF f.end = NoEnd THEN NoEnd ELSE as_timestamp(f.end)]
      h1 == [h EXCEPT !.mem.regData = data, !.disk.timer = data]
  IN Await(Saved(h1, "save_timer", f.i, h.disk.timer, data), At(f, "save"))

set_end_entry(h) ==
  LET f == Top(h)
  IN IF ~h.mem.regInit THEN InitializeCall(h, f) ELSE SetEndWrite(h, f)

\* The stored end, if any, is later than t.
ExpiredOfflineStrict(end, t) == end # NoEnd /\ end < t

\* async_get_timer's test for a timer that expired while the process was down.
ExpiredOffline(end, t) == end # NoEnd /\ end <= t

\* TimerRegistry.async_get_timer after initialize.
GetTimerBody(h, f) ==
  IF h.mem.timers[f.i] # NoTimer THEN Return(h, h.mem.timers[f.i])
  ELSE
    LET end_ts == h.mem.regData[f.i]
        end == IF end_ts = NoEnd THEN NoEnd ELSE utc_from_timestamp(end_ts)
        k == Len(h.mem.tobj) + 1
        h1 == [h EXCEPT !.mem.tobj = Append(@, NewTimer(f.i, end)),
                        !.hist.created[f.i] = @ + 1,
                        !.blocked = @ \/ k > MaxTimers]
        \* BoostTimer.__init__ arms the callback of a stored end.
        h2 == IF end # NoEnd THEN _schedule_finish(h1, k) ELSE h1
        built(x) == [type |-> "timer_created", i |-> f.i, k |-> k, end |-> end,
                     stored |-> h.disk.timer[f.i], timer |-> x.mem.tobj[k],
                     registered |-> x.mem.timers[f.i],
                     armed |-> {m \in 1..Len(x.mem.tobj) :
                                  x.mem.tobj[m].inst = f.i /\ x.mem.tobj[m].armed}]
    IN IF ExpiredOffline(end, h.now)
       THEN Call(Observe(h2, built(h2)), [At(f, "offline") EXCEPT !.k = k],
                 F_tfinish(k, TRUE))
       ELSE LET h3 == IF end # NoEnd THEN _schedule_finish(h2, k) ELSE h2
                h4 == [h3 EXCEPT !.mem.timers[f.i] = k]
            IN Return(Observe(h4, built(h4)), k)

get_timer_entry(h) ==
  LET f == Top(h)
  IN IF ~h.mem.regInit THEN InitializeCall(h, f) ELSE GetTimerBody(h, f)

get_timer_offline(h) ==
  LET f == Top(h)
  IN Return(Observe([h EXCEPT !.mem.timers[f.i] = f.k],
                    [type |-> "timer_restored", i |-> f.i, k |-> f.k]), f.k)

\* ------------------------------------------- BoostTimer's three coroutines
\* What a timer is: its end in memory and in the store, and its callback.
TimerState(h, k) ==
  [end |-> h.mem.tobj[k].end, stored |-> h.disk.timer[h.mem.tobj[k].inst],
   armed |-> h.mem.tobj[k].armed]

async_cancel_entry(h) ==
  LET f == Top(h)
      h1 == [h EXCEPT !.mem.tobj[f.k].end = NoEnd]
  IN Call(h1, [At(f, "set_end") EXCEPT !.before = TimerState(h, f.k)],
          F_set_end(h.mem.tobj[f.k].inst, NoEnd))

\* BoostTimer.async_cancel after the save, to its return.
async_cancel_set_end(h) ==
  LET f == Top(h)
      h1 == _notify(_cancel_schedule(h, f.k), f.k)
      h2 == [h1 EXCEPT !.mem.tobj[f.k].cancelled = TRUE]
  IN Return(Observe(h2, [type |-> "cancelled", k |-> f.k, before |-> f.before,
                         after |-> TimerState(h2, f.k), via |-> h.cur.via]), 0)

async_finish_entry(h) ==
  LET f == Top(h)
      h1 == [h EXCEPT !.mem.tobj[f.k].end = NoEnd]
  IN Call(h1, [At(f, "set_end") EXCEPT !.ended = h.mem.tobj[f.k].end],
          F_set_end(h.mem.tobj[f.k].inst, NoEnd))

\* After the save: disarm, notify, fire EVENT_TIMER_FINISHED (its listener
\* schedules _handle_timer_finished, which finishes the boost with the
\* event's flag) and schedule the direct finish_callback.
async_finish_set_end(h) ==
  LET f == Top(h)
      i == h.mem.tobj[f.k].inst
      h1 == _notify(_cancel_schedule(h, f.k), f.k)
      h2 == [h1 EXCEPT
               !.hist.fired[i] = Append(@, f.exp),
               !.spawn = @ \o
                 (IF h.mem.finish_listener
                  THEN <<NewTask(F_finish(i, f.exp), "event")>> ELSE <<>>)
                 \o (IF h.mem.finish_callback
                     THEN <<NewTask(F_finish(i, FALSE), "callback")>> ELSE <<>>)]
  IN Return(Observe(h2, [type |-> "timer_finished", i |-> i, k |-> f.k, exp |-> f.exp,
                         via |-> h.cur.via, ended |-> f.ended]), 0)

\* async_start that takes only a negative duration for a finish.
async_start_entry_negative(h) ==
  LET f == Top(h)
      i == h.mem.tobj[f.k].inst
      h0 == [h EXCEPT !.mem.tobj[f.k].cancelled = FALSE]
  IN IF f.d < 0
     THEN Call(h0, [At(f, "finish") EXCEPT !.at = h.now,
                                          !.fired = Len(h.hist.fired[i])],
               F_tfinish(f.k, FALSE))
     ELSE Call([h0 EXCEPT !.mem.tobj[f.k].end = h.now + f.d],
               [At(f, "set_end") EXCEPT !.at = h.now],
               F_set_end(i, h.now + f.d))

async_start_entry(h) ==
  LET f == Top(h)
      i == h.mem.tobj[f.k].inst
      h0 == [h EXCEPT !.mem.tobj[f.k].cancelled = FALSE]
  IN IF f.d <= 0
     THEN Call(h0, [At(f, "finish") EXCEPT !.at = h.now,
                                          !.fired = Len(h.hist.fired[i])],
               F_tfinish(f.k, FALSE))
     ELSE Call([h0 EXCEPT !.mem.tobj[f.k].end = h.now + f.d],
               [At(f, "set_end") EXCEPT !.at = h.now],
               F_set_end(i, h.now + f.d))

async_start_finish(h) ==
  LET f == Top(h)
  IN Return(Observe(h, [type |-> "timer_started", i |-> h.mem.tobj[f.k].inst,
                         k |-> f.k, d |-> f.d, at |-> f.at, fired |-> f.fired,
                         alone |-> h.cur.alone]), 0)

\* async_start after the save, without arming the due-time callback.
async_start_set_end_unarmed(h) ==
  LET f == Top(h)
      h1 == _notify(h, f.k)
  IN Return(Observe(h1, [type |-> "timer_started", i |-> h.mem.tobj[f.k].inst,
                          k |-> f.k, d |-> f.d, at |-> f.at,
                          alone |-> h.cur.alone]), 0)

async_start_set_end(h) ==
  LET f == Top(h)
      h1 == _notify(_schedule_finish(h, f.k), f.k)
  IN Return(Observe(h1, [type |-> "timer_started", i |-> h.mem.tobj[f.k].inst,
                          k |-> f.k, d |-> f.d, at |-> f.at,
                          alone |-> h.cur.alone]), 0)

\* ------------------------------------------------------- the host's services
SwOrder == <<"s1", "s2">>
Sorted(set) == SelectSeq(SwOrder, LAMBDA s : s \in set)

SvcCall(svc, i, targets, v) == [svc |-> svc, i |-> i, targets |-> targets, v |-> v]

\* What the host does when a service call succeeds.  A switch service skips
\* unavailable entities; scheduler.run_action lets the schedule apply its
\* setpoint.
Served(e, c) ==
  CASE c.svc = "climate.set_temperature" -> [e EXCEPT !.target[c.i] = c.v]
    [] c.svc = "switch.turn_on" ->
         [e EXCEPT !.swOn = [s \in Sw |->
            IF s \in c.targets /\ e.swAvail[s] THEN TRUE ELSE @[s]]]
    [] c.svc = "switch.turn_off" ->
         [e EXCEPT !.swOn = [s \in Sw |->
            IF s \in c.targets /\ e.swAvail[s] THEN FALSE ELSE @[s]]]
    [] c.svc = "boost_active.turn_on" -> [e EXCEPT !.boostActive[c.i] = TRUE]
    [] c.svc = "boost_active.turn_off" -> [e EXCEPT !.boostActive[c.i] = FALSE]
    [] c.svc = "number.set_value" -> [e EXCEPT !.selector[c.i] = c.v]
    [] c.svc = "scheduler.run_action" -> [e EXCEPT !.target[c.i] = Temp.sched]
    [] OTHER -> e

\* hass.services.async_call(..., blocking=True) up to its await: the call is
\* handed to the host, which performs it or raises HomeAssistantError before
\* the coroutine resumes (h.cur.ok).
Invoke(h, c) == [h EXCEPT !.cur.call = c, !.cur.wait = "service"]

\* The coroutine enters one of the integration's own steps.
Entered(h, step, i, v) ==
  Logged(h, [svc |-> step, i |-> i, targets |-> {}, v |-> v, ok |-> TRUE])

\* _is_switch_on for the two flags.
BoostActiveOn(h, i) == h.mem.loaded[i] /\ h.ent.boostActive[i]
OverrideOn(h, i) == h.mem.loaded[i] /\ h.ent.override[i]

\* get_scheduler_switches_for_thermostat
get_scheduler_switches_for_thermostat(h, thermostat_name) ==
  {s \in Sw : h.ent.swAvail[s] /\ _matches_tag(SwTags[s], LowerStr(thermostat_name))}

\* --------------------------------------------- pending delayed callbacks
NoPending == [has |-> FALSE, v |-> FALSE]
NoStabilize == [set |-> FALSE, exp |-> FALSE]

\* No async_call_later callback of an instance is waiting for its delay.
NoCallLater == [retry |-> 0, stabilize |-> 0, retrigger |-> 0]

PendingPop(h, i) == [h EXCEPT !.mem.restore_pending[i] = NoPending]

\* _schedule_snapshot_restore_retry keeping the last deferral's flag only.
_schedule_snapshot_restore_retry_last(h, i, expired_while_offline) ==
  LET h1 == [h EXCEPT !.mem.restore_pending[i] =
                         [has |-> TRUE, v |-> expired_while_offline]]
  IN IF h.mem.restore_unsub[i] THEN h1
     ELSE [h1 EXCEPT !.mem.restore_unsub[i] = TRUE,
                     !.mem.call_later[i].retry = @ + 1]

\* _schedule_snapshot_restore_retry registering a callback on every request.
_schedule_snapshot_restore_retry_always(h, i, expired_while_offline) ==
  LET old == h.mem.restore_pending[i]
      merged == (old.has /\ old.v) \/ expired_while_offline
  IN [h EXCEPT !.mem.restore_pending[i] = [has |-> TRUE, v |-> merged],
               !.mem.restore_unsub[i] = TRUE,
               !.mem.call_later[i].retry = @ + 1]

\* async_call_later registers one more callback of a kind; the unsub handle
\* the integration holds cancels the one it was returned for.
_schedule_snapshot_restore_retry(h, i, expired_while_offline) ==
  LET old == h.mem.restore_pending[i]
      merged == (old.has /\ old.v) \/ expired_while_offline
      h1 == [h EXCEPT !.mem.restore_pending[i] = [has |-> TRUE, v |-> merged]]
  IN IF h.mem.restore_unsub[i] THEN h1
     ELSE [h1 EXCEPT !.mem.restore_unsub[i] = TRUE,
                     !.mem.call_later[i].retry = @ + 1]

\* async_cancel_pending_scheduler_callbacks leaving the stabilize wait and
\* its flag.
async_cancel_pending_scheduler_callbacks_two(h, i) ==
  Observe([h EXCEPT !.mem.restore_unsub[i] = FALSE,
                    !.mem.retrigger_unsub[i] = FALSE,
                    !.mem.call_later[i] =
                       [retry |-> IF h.mem.restore_unsub[i] THEN @.retry - 1 ELSE @.retry,
                        stabilize |-> @.stabilize,
                        retrigger |-> IF h.mem.retrigger_unsub[i] THEN @.retrigger - 1
                                      ELSE @.retrigger],
                    !.mem.restore_pending[i] = NoPending,
                    !.mem.retrigger_pending = @ \ {i},
                    !.cur.path = "cancel_all"],
          [type |-> "cancel_all", i |-> i, held |-> h.mem.call_later[i]])

\* Each handle held is popped and called, which unregisters its callback;
\* the three pending flags are dropped.  The coroutine is marked as having
\* cancelled.
async_cancel_pending_scheduler_callbacks(h, i) ==
  Observe([h EXCEPT !.mem.restore_unsub[i] = FALSE,
                    !.mem.retrigger_unsub[i] = FALSE,
                    !.mem.stabilize_unsub[i] = NoStabilize,
                    !.mem.call_later[i] =
                       [retry |-> IF h.mem.restore_unsub[i] THEN @.retry - 1 ELSE @.retry,
                        stabilize |-> IF h.mem.stabilize_unsub[i].set THEN @.stabilize - 1
                                      ELSE @.stabilize,
                        retrigger |-> IF h.mem.retrigger_unsub[i] THEN @.retrigger - 1
                                      ELSE @.retrigger],
                    !.mem.restore_pending[i] = NoPending,
                    !.mem.stabilize_pending = @ \ {i},
                    !.mem.retrigger_pending = @ \ {i},
                    !.cur.path = "cancel_all"],
          [type |-> "cancel_all", i |-> i, held |-> h.mem.call_later[i]])

\* ------------------------------------------- target-temperature snapshot
\* _get_current_target_temperature: None for a thermostat without a state
\* or a target.
_get_current_target_temperature(h, i) == h.ent.target[i]

store_temp_entry(h) ==
  LET f == Top(h)
      temperature == _get_current_target_temperature(h, f.i)
  IN IF temperature = NoTemp THEN Return(h, NoTemp)
     ELSE Await(h, [At(f, "load") EXCEPT !.data = h.disk.temp,
                                         !.temperature = temperature])

store_temp_load(h) ==
  LET f == Top(h)
      data == [f.data EXCEPT ![f.i] = f.temperature]
  IN Await(Saved([h EXCEPT !.disk.temp = data], "save_temp", f.i, h.disk.temp, data),
           [At(f, "save") EXCEPT !.data = data])

restore_temp_load(h) ==
  LET f == Top(h)
  IN IF f.data[f.i] = NoTemp THEN Return(h, FALSE)
     ELSE Await(Invoke(h, SvcCall("climate.set_temperature", f.i, {}, f.data[f.i])),
                At(f, "set"))

restore_temp_set(h) ==
  LET f == Top(h)
      data == [f.data EXCEPT ![f.i] = NoTemp]
  IN IF ~h.cur.ok THEN Return(h, FALSE)
     ELSE Await(Saved([h EXCEPT !.disk.temp = data], "save_temp", f.i, h.disk.temp, data),
                [At(f, "save") EXCEPT !.data = data])

\* ------------------------------------------------------ scheduler snapshot
StateOf(h, s) == IF h.ent.swOn[s] THEN "on" ELSE "off"

\* async_create_scheduler_scene returns the entity ids.
Captured(h, result) ==
  LET f == Top(h)
  IN Return(Observe(h, [type |-> "captured", i |-> f.i, name |-> f.name, on |-> f.on,
                        avail |-> f.avail, prior |-> f.prior, result |-> result,
                        stored |-> h.disk.sched[f.i]]), result)

create_scene_entry(h) ==
  LET f == Top(h)
      scheduler_switches == get_scheduler_switches_for_thermostat(h, f.name)
      snap == [s \in {x \in scheduler_switches : h.ent.swAvail[x]} |-> StateOf(h, s)]
      g == [f EXCEPT !.on = h.ent.swOn, !.avail = h.ent.swAvail,
                     !.prior = h.disk.sched[f.i]]
  IN IF scheduler_switches = {} THEN Captured(SetTop(h, g), {})
     ELSE Await(h, [At(g, "load") EXCEPT !.data = h.disk.sched, !.snapshot = snap])

create_scene_load(h) ==
  LET f == Top(h)
      data == [f.data EXCEPT ![f.i] = [has |-> TRUE, m |-> f.snapshot]]
  IN Await(Saved([h EXCEPT !.disk.sched = data], "save_sched", f.i, h.disk.sched, data),
           [At(f, "save") EXCEPT !.data = data])

ToTurnOn(m) == {s \in DOMAIN m : m[s] = "on"}
ToTurnOff(m) == {s \in DOMAIN m : m[s] # "on"}

\* async_restore_scheduler_snapshot returns: what the attempt of h0 found and
\* did, with the calls it made and the retry state it met.
RestoreReturn(h0, h, outcome) ==
  LET f == Top(h0)
  IN Return(Observe(h, [type |-> "restore", i |-> f.i, exp |-> f.exp, skip |-> f.skip,
                        outcome |-> outcome, via |-> h0.cur.via, on |-> f.on,
                        alone |-> h0.cur.alone, snapshot |-> f.snapshot,
                        calls |-> SubSeq(h0.cur.calls, f.n0 + 1, Len(h0.cur.calls)),
                        pending |-> h0.mem.restore_pending[f.i],
                        call_later |-> h0.mem.call_later[f.i],
                        sched |-> h0.disk.sched[f.i], disk |-> h0.disk,
                        after |-> [disk |-> h.disk,
                                   call_later |-> h.mem.call_later[f.i],
                                   pending |-> h.mem.restore_pending[f.i],
                                   unsub |-> h.mem.restore_unsub[f.i]]]), 0)

\* async_restore_scheduler_snapshot going to its load whatever the flags are.
restore_sched_entry_unchecked(h) ==
  LET f == [Top(h) EXCEPT !.n0 = Len(h.cur.calls),
                          !.on = BoostActiveOn(h, Top(h).i) \/ OverrideOn(h, Top(h).i)]
  IN Await(h, [At(f, "load") EXCEPT !.data = h.disk.sched,
                                    !.snapshot = h.disk.sched[f.i]])

restore_sched_entry(h) ==
  LET f == [Top(h) EXCEPT !.n0 = Len(h.cur.calls),
                          !.on = BoostActiveOn(h, Top(h).i) \/ OverrideOn(h, Top(h).i)]
      h0 == SetTop(h, f)
  IN IF BoostActiveOn(h, f.i) THEN RestoreReturn(h0, PendingPop(h0, f.i), "boost_active")
     ELSE IF OverrideOn(h, f.i) THEN RestoreReturn(h0, PendingPop(h0, f.i), "override")
     ELSE Await(h, [At(f, "load") EXCEPT !.data = h.disk.sched,
                                         !.snapshot = h.disk.sched[f.i]])

\* A restore attempt acts (its bulk turn_on call, its save) on the snapshot
\* it has loaded: what the flags and the store are in h0, when it does.
Acting(h, h0, f, step) ==
  Observe(h, [type |-> "restore_acts", i |-> f.i, step |-> step, loaded |-> f.snapshot,
              stored |-> h0.disk.sched[f.i],
              flag |-> BoostActiveOn(h0, f.i) \/ OverrideOn(h0, f.i)])

\* The last step of a restore: drop the entry from the loaded document and
\* save the document.
RestoreSchedFinalize(h, f) ==
  LET data == [f.data EXCEPT ![f.i] = NoSnapshot]
  IN Await(Saved(Acting([h EXCEPT !.disk.sched = data], h, f, "save"),
                 "save_sched", f.i, h.disk.sched, data),
           [At(f, "save") EXCEPT !.data = data])

\* _async_run_scheduler_actions: one awaited scheduler.run_action per entity.
RunSchedulerActions(h, f, todo) ==
  IF todo = <<>> THEN RestoreSchedFinalize(h, f)
  ELSE Await(Invoke(h, SvcCall("scheduler.run_action", f.i, {Head(todo)}, 0)),
             [At(f, "act") EXCEPT !.todo = Tail(todo)])

\* async_restore_scheduler_snapshot after its load, with an entry for the
\* instance in the document.
RestoreSchedFound(h) ==
  LET f == Top(h)
      snap == f.data[f.i]
      missing == {s \in DOMAIN snap.m : ~h.ent.swAvail[s]}
  IN IF DOMAIN snap.m = {}
     THEN LET data == [f.data EXCEPT ![f.i] = NoSnapshot]
          IN Await(Saved([h EXCEPT !.disk.sched = data], "save_sched", f.i, h.disk.sched, data),
                   [At(f, "empty_save") EXCEPT !.data = data])
     ELSE IF missing # {}
          THEN RestoreReturn(h, _schedule_snapshot_restore_retry(h, f.i, f.exp), "deferred")
     ELSE IF f.exp /\ ~f.skip
          THEN IF f.i \in h.mem.stabilize_pending \/ h.mem.stabilize_unsub[f.i].set
               THEN RestoreReturn(h, h, "stabilize_queued")
               ELSE RestoreReturn(h, [h EXCEPT !.mem.stabilize_pending = @ \cup {f.i},
                                               !.mem.stabilize_unsub[f.i] =
                                                  [set |-> TRUE, exp |-> f.exp],
                                               !.mem.call_later[f.i].stabilize = @ + 1],
                                  "stabilize")
     ELSE IF ToTurnOn(snap.m) # {}
          THEN Await(Invoke(Acting(h, h, f, "turn_on"),
                            SvcCall("switch.turn_on", f.i, ToTurnOn(snap.m), 0)),
                     At(f, "on_call"))
          ELSE Await(Invoke(h, SvcCall("switch.turn_off", f.i, ToTurnOff(snap.m), 0)),
                     At(f, "off_call"))

\* restore_sched_load scheduling a retry when the instance has no snapshot.
restore_sched_load_retry(h) ==
  LET f == Top(h)
  IN IF ~f.data[f.i].has
     THEN RestoreReturn(h, _schedule_snapshot_restore_retry(h, f.i, f.exp), "no_snapshot")
     ELSE RestoreSchedFound(h)

\* async_restore_scheduler_snapshot after its load.
restore_sched_load(h) ==
  LET f == Top(h)
  IN IF ~f.data[f.i].has THEN RestoreReturn(h, PendingPop(h, f.i), "no_snapshot")
     ELSE RestoreSchedFound(h)

\* restore_sched_on_call going from the turn_on call to the scheduler
\* actions.
restore_sched_on_call_only(h) ==
  LET f == Top(h)
      snap == f.data[f.i]
  IN IF ~h.cur.ok
     THEN RestoreReturn(h, _schedule_snapshot_restore_retry(h, f.i, f.exp), "failed")
     ELSE RunSchedulerActions(h, f, Sorted(ToTurnOn(snap.m)))

restore_sched_on_call(h) ==
  LET f == Top(h)
      snap == f.data[f.i]
  IN IF ~h.cur.ok
     THEN RestoreReturn(h, _schedule_snapshot_restore_retry(h, f.i, f.exp), "failed")
     ELSE IF ToTurnOff(snap.m) # {}
          THEN Await(Invoke(h, SvcCall("switch.turn_off", f.i, ToTurnOff(snap.m), 0)),
                     At(f, "off_call"))
          ELSE RunSchedulerActions(h, f, Sorted(ToTurnOn(snap.m)))

\* restore_sched_off_call letting the error of the turn_off call propagate.
restore_sched_off_call_raise(h) ==
  LET f == Top(h)
  IN IF ~h.cur.ok THEN Raise(h)
     ELSE RunSchedulerActions(h, f, Sorted(ToTurnOn(f.data[f.i].m)))

restore_sched_off_call(h) ==
  LET f == Top(h)
      snap == f.data[f.i]
  IN IF ~h.cur.ok
     THEN RestoreReturn(h, _schedule_snapshot_restore_retry(h, f.i, f.exp), "failed")
     ELSE RunSchedulerActions(h, f, Sorted(ToTurnOn(snap.m)))

\* ----------------------------------------------- async_finish_boost_for_entry
\* The finally clause of async_finish_boost_for_entry, then its return.
\* async_finish_boost_for_entry returning without its finally clause.
FinishReturn_held(h) == Return(h, 0)

FinishReturn(h) ==
  Return([h EXCEPT !.mem.finish_in_progress = @ \ {Top(h).i}], 0)

\* async_finish_boost_for_entry without its in-progress guard.
\* One more run of the finish steps that a finished timer has started, by
\* its event or by its fallback callback.
Delivered(h, i) ==
  IF h.cur.via \in {"event", "callback"} THEN [h EXCEPT !.hist.executed[i] = @ + 1] ELSE h

finish_boost_entry_unguarded(h) ==
  LET f == Top(h)
      h1 == [h EXCEPT !.mem.finish_in_progress = @ \cup {f.i}]
  IN IF ~h.mem.loaded[f.i]
     THEN FinishReturn([h1 EXCEPT !.cur.path = "no_entry"])
     ELSE Call(Delivered(h1, f.i), At(f, "get_timer"), F_get_timer(f.i))

finish_boost_entry_held(h) ==
  LET f == Top(h)
  IN IF f.i \in h.mem.finish_in_progress
     THEN Return([h EXCEPT !.cur.path = "dropped"], 0)
     ELSE LET h1 == [h EXCEPT !.mem.finish_in_progress = @ \cup {f.i}]
          IN IF ~h.mem.loaded[f.i]
             THEN Return([h1 EXCEPT !.cur.path = "no_entry"], 0)
             ELSE Call(Delivered(h1, f.i), At(f, "get_timer"), F_get_timer(f.i))

finish_boost_entry(h) ==
  LET f == Top(h)
  IN IF f.i \in h.mem.finish_in_progress
     THEN Return([h EXCEPT !.cur.path = "dropped"], 0)
     ELSE LET h1 == [h EXCEPT !.mem.finish_in_progress = @ \cup {f.i}]
          IN IF ~h.mem.loaded[f.i]
             THEN FinishReturn([h1 EXCEPT !.cur.path = "no_entry"])
             ELSE Call(Delivered(h1, f.i), At(f, "get_timer"), F_get_timer(f.i))

finish_boost_get_timer(h) ==
  Call(Entered(h, "timer.async_cancel", Top(h).i, 0),
       [At(Top(h), "cancel") EXCEPT !.k = h.ret], F_cancel(h.ret))

finish_boost_selector(h) ==
  LET f == Top(h)
  IN IF ~h.cur.ok THEN Raise(h)
     ELSE Await(Invoke(h, SvcCall("boost_active.turn_off", f.i, {}, 0)),
                At(f, "active_off"))

finish_boost_active_off(h) ==
  LET f == Top(h)
      scheduler_switches == get_scheduler_switches_for_thermostat(h, ThermostatName[f.i])
      dec == [read |-> TRUE, boost_was_active |-> FALSE,
              override |-> OverrideOn(h, f.i),
              no_schedules |-> (scheduler_switches = {}),
              has |-> h.disk.sched[f.i].has]
  IN IF ~h.cur.ok THEN Raise(h)
     ELSE Await([h EXCEPT !.cur.dec = dec],
                [At(f, "has_snapshot") EXCEPT
                      !.override = dec.override,
                      !.no_schedules = dec.no_schedules,
                      !.has = dec.has])

\* The two branches of the restore policy: the temperature snapshot alone, or
\* the temperature snapshot and then the scheduler snapshot.
RestoreTemperatureOnly(h) ==
  LET f == Top(h)
  IN Call(Entered([h EXCEPT !.cur.path = "temperature"], "restore_temperature",
                  f.i, h.disk.temp[f.i]),
          At(f, "temp_only"), F_rtemp(f.i))

RestoreTemperatureThenScheduler(h) ==
  LET f == Top(h)
  IN Call(Entered([h EXCEPT !.cur.path = "scheduler"], "restore_temperature",
                  f.i, h.disk.temp[f.i]),
          At(f, "pre_temp"), F_rtemp(f.i))

\* The decision with "no scheduler entity matches" as a third reason for the
\* temperature-only branch.
finish_boost_has_snapshot_no_schedules(h) ==
  LET f == Top(h)
  IN IF f.override \/ f.no_schedules \/ ~f.has
     THEN RestoreTemperatureOnly(h)
     ELSE RestoreTemperatureThenScheduler(h)

\* The decision without the override flag.
finish_boost_has_snapshot_no_override(h) ==
  IF ~Top(h).has THEN RestoreTemperatureOnly(h)
  ELSE RestoreTemperatureThenScheduler(h)

\* The decision with the scheduler branch going to the scheduler restore at
\* once.
finish_boost_has_snapshot_no_baseline(h) ==
  LET f == Top(h)
  IN IF f.override \/ ~f.has
     THEN RestoreTemperatureOnly(h)
     ELSE Call(Entered([h EXCEPT !.cur.path = "scheduler"], "restore_scheduler", f.i, 0),
               At(f, "scheduler"), F_rsched(f.i, f.exp, FALSE))

finish_boost_has_snapshot(h) ==
  LET f == Top(h)
  IN IF f.override \/ ~f.has
     THEN RestoreTemperatureOnly(h)
     ELSE RestoreTemperatureThenScheduler(h)

finish_boost_pre_temp(h) ==
  LET f == Top(h)
  IN Call(Entered(h, "restore_scheduler", f.i, 0), At(f, "scheduler"),
          F_rsched(f.i, f.exp, FALSE))

\* ------------------------------------------------ async_start_boost_for_entry
\* From the temperature check to the set_temperature call.
StartBoostResolve(h, f) ==
  LET temperature_c == IF f.temperature_c = NoTemp THEN h.ent.boostTemp[f.i]
                       ELSE f.temperature_c
      parsed == IF f.time.kind = "none"
                THEN [ok |-> TRUE, secs |-> h.ent.selector[f.i] * TickSeconds]
                ELSE _parse_duration_value(f.time)
      target_temp == ToDisplayUnit(temperature_c, h.celsius)
  IN IF temperature_c = NoTemp THEN Raise([h EXCEPT !.cur.path = "config_error"])
     ELSE IF ~parsed.ok THEN Raise([h EXCEPT !.cur.path = "config_error"])
     ELSE Await(Invoke([h EXCEPT !.cur.d = parsed.secs \div TickSeconds],
                       SvcCall("climate.set_temperature", f.i, {}, target_temp)),
                [At(f, "set") EXCEPT !.d = parsed.secs \div TickSeconds])

start_boost_entry(h) ==
  LET f == Top(h)
  IN IF ~h.mem.loaded[f.i] THEN Raise(h)
     ELSE Call(h, At(f, "get_timer"), F_get_timer(f.i))

\* The pre-check that captures the temperature snapshot on every start.
start_boost_get_timer_recapture(h) ==
  LET f == [Top(h) EXCEPT !.k = h.ret,
                          !.boost_was_active = BoostActiveOn(h, Top(h).i),
                          !.override = OverrideOn(h, Top(h).i)]
      h1 == [h EXCEPT !.cur.dec = [NoDecision EXCEPT
                                     !.read = TRUE,
                                     !.boost_was_active = f.boost_was_active,
                                     !.override = f.override]]
  IN Call(h1, At(f, "store_temp"), F_ttemp(f.i))

start_boost_get_timer(h) ==
  LET f == [Top(h) EXCEPT !.k = h.ret,
                          !.boost_was_active = BoostActiveOn(h, Top(h).i),
                          !.override = OverrideOn(h, Top(h).i)]
      h1 == [h EXCEPT !.cur.dec = [NoDecision EXCEPT
                                     !.read = TRUE,
                                     !.boost_was_active = f.boost_was_active,
                                     !.override = f.override]]
  IN IF ~f.boost_was_active THEN Call(h1, At(f, "store_temp"), F_ttemp(f.i))
     ELSE StartBoostResolve(h1, f)

start_boost_set(h) ==
  LET f == Top(h)
  IN IF ~h.cur.ok THEN Raise(h)
     ELSE Call(h, At(f, "timer_start"), F_tstart(f.k, f.d))

start_boost_active_on(h) ==
  LET f == Top(h)
  IN IF ~h.cur.ok THEN Raise(h)
     ELSE IF ~f.boost_was_active /\ ~f.override
          THEN Call(h, At(f, "scene"), F_scene(f.i, ThermostatName[f.i]))
          ELSE Return(h, 0)

\* The snapshot step that leaves the scheduler switches as they are.
start_boost_scene_keep(h) == Return(h, 0)

start_boost_scene(h) ==
  LET f == Top(h)
  IN IF h.ret # {}
     THEN Await(Invoke(h, SvcCall("switch.turn_off", f.i, h.ret, 0)), At(f, "sched_off"))
     ELSE Return(h, 0)

\* --------------------------------------- BoostFinishSensor.async_added_to_hass
SensorAttach(h, f) ==
  Return(_handle_timer_update([h EXCEPT !.mem.tobj[f.k].listening = TRUE], f.k), 0)

sensor_entry(h) ==
  LET f == Top(h)
  IN Call(h, [At(f, "get_timer") EXCEPT !.restored_end = h.ent.sensorEnd[f.i]],
          F_get_timer(f.i))

\* _async_restore_missing_timer, then the listener is attached.
sensor_get_timer(h) ==
  LET f == [Top(h) EXCEPT !.k = h.ret]
  IN IF /\ f.restored_end # NoEnd
        /\ snapshot(h.mem.tobj[f.k], h.now).end = NoEnd
        /\ f.restored_end > h.now
     THEN Call(h, At(f, "restore"), F_tstart(f.k, f.restored_end - h.now))
     ELSE SensorAttach(h, f)

\* ------------------------------------------------------ ScheduleOverrideSwitch
OverrideSet(h, i, v) == [h EXCEPT !.ent.override[i] = v]

override_turn_on_entry(h) ==
  LET f == Top(h)
      h1 == async_cancel_pending_scheduler_callbacks(h, f.i)
  IN IF OverrideOn(h, f.i) THEN Return(h, 0)
     ELSE IF ~BoostActiveOn(h, f.i)
          THEN Call(h1, At(f, "scene"), F_scene(f.i, ThermostatEntity[f.i]))
          ELSE Return(OverrideSet(h1, f.i, TRUE), 0)

override_turn_on_scene(h) ==
  LET f == Top(h)
  IN IF h.ret # {}
     THEN Await(Invoke(h, SvcCall("switch.turn_off", f.i, h.ret, 0)), At(f, "off"))
     ELSE Return(OverrideSet(h, f.i, TRUE), 0)

\* async_turn_off going to the restore before it has cleared the flag.
override_turn_off_entry_late(h) ==
  LET f == Top(h)
      h1 == async_cancel_pending_scheduler_callbacks(h, f.i)
  IN IF ~OverrideOn(h, f.i) THEN Return(h, 0)
     ELSE IF ~BoostActiveOn(h, f.i)
          THEN Call(h1, At(f, "restore"), F_rsched(f.i, FALSE, FALSE))
          ELSE Return(OverrideSet(h1, f.i, FALSE), 0)

override_turn_off_entry(h) ==
  LET f == Top(h)
      h1 == OverrideSet(async_cancel_pending_scheduler_callbacks(h, f.i), f.i, FALSE)
  IN IF ~OverrideOn(h, f.i) THEN Return(h, 0)
     ELSE IF ~BoostActiveOn(h, f.i)
          THEN Call(h1, At(f, "restore"), F_rsched(f.i, FALSE, FALSE))
          ELSE Return(h1, 0)

\* ------------------------------------------------- removing a config entry
\* async_unload_entry: the platforms are unloaded (the sensor detaches its
\* timer listener, the entities' states leave the state machine), the
\* registry forgets the timer and disarms it, hass.data drops the entry.
\* Pending scheduler callbacks are left alone.
async_unload_entry(h, i) ==
  LET k == h.mem.timers[i]
      h1 == IF k = NoTimer THEN h
            ELSE [h EXCEPT !.mem.tobj[k].armed = FALSE,
                           !.mem.tobj[k].listening = FALSE,
                           !.mem.tobj[k].unloaded = TRUE,
                           !.mem.timers[i] = NoTimer]
  IN [h1 EXCEPT !.mem.loaded[i] = FALSE]

\* async_remove_entry after the unload: registry.async_remove finds no timer
\* and clears the persisted end.
remove_entry_entry(h) ==
  LET f == Top(h)
  IN Call(async_unload_entry(h, f.i), At(f, "set_end"), F_set_end(f.i, NoEnd))

\* async_clear_scheduler_snapshot after its save or without one: the pending
\* callbacks are cancelled; async_clear_target_temperature_snapshot loads.
remove_entry_sched_save(h) ==
  LET f == Top(h)
  IN Await(async_cancel_pending_scheduler_callbacks(h, f.i),
           [At(f, "temp_load") EXCEPT !.data = h.disk.temp])

\* async_clear_scheduler_snapshot after its load.
remove_entry_sched_load(h) ==
  LET f == Top(h)
      data == [f.data EXCEPT ![f.i] = NoSnapshot]
  IN IF f.data[f.i].has
     THEN Await(Saved([h EXCEPT !.disk.sched = data], "save_sched", f.i, h.disk.sched, data),
                [At(f, "sched_save") EXCEPT !.data = data, !.had = TRUE])
     ELSE remove_entry_sched_save(h)

\* async_clear_target_temperature_snapshot after its load.
remove_entry_temp_load(h) ==
  LET f == Top(h)
      data == [f.data EXCEPT ![f.i] = NoTemp]
  IN IF f.data[f.i] # NoTemp
     THEN Await(Saved([h EXCEPT !.disk.temp = data], "save_temp", f.i, h.disk.temp, data),
                [At(f, "temp_save") EXCEPT !.data = data])
     ELSE Return(h, 0)

\* ------------------------------------------------------ running a coroutine
\* One frame's code from its program counter to its next await, call or
\* return.
Step(h) ==
  LET f == Top(h)
      at == <<f.fn, f.pc>>
  IN CASE at = <<"async_set_end", "entry">> -> set_end_entry(h)
       [] at = <<"async_set_end", "init_load">> -> SetEndWrite(InitializeDone(h), Top(h))
       [] at = <<"async_set_end", "save">> -> Return(h, 0)
       [] at = <<"async_get_timer", "entry">> -> get_timer_entry(h)
       [] at = <<"async_get_timer", "init_load">> -> GetTimerBody(InitializeDone(h), Top(h))
       [] at = <<"async_get_timer", "offline">> -> get_timer_offline(h)
       [] at = <<"async_cancel", "entry">> -> async_cancel_entry(h)
       [] at = <<"async_cancel", "set_end">> -> async_cancel_set_end(h)
       [] at = <<"async_finish", "entry">> -> async_finish_entry(h)
       [] at = <<"async_finish", "set_end">> -> async_finish_set_end(h)
       [] at = <<"async_start", "entry">> -> async_start_entry(h)
       [] at = <<"async_start", "finish">> -> async_start_finish(h)
       [] at = <<"async_start", "set_end">> -> async_start_set_end(h)
       [] at = <<"store_temp", "entry">> -> store_temp_entry(h)
       [] at = <<"store_temp", "load">> -> store_temp_load(h)
       [] at = <<"store_temp", "save">> -> Return(h, Top(h).temperature)
       [] at = <<"restore_temp", "entry">> ->
           Await(h, [At(Top(h), "load") EXCEPT !.data = h.disk.temp])
       [] at = <<"restore_temp", "load">> -> restore_temp_load(h)
       [] at = <<"restore_temp", "set">> -> restore_temp_set(h)
       [] at = <<"restore_temp", "save">> -> Return(h, TRUE)
       [] at = <<"create_scene", "entry">> -> create_scene_entry(h)
       [] at = <<"create_scene", "load">> -> create_scene_load(h)
       [] at = <<"create_scene", "save">> -> Captured(h, DOMAIN Top(h).snapshot)
       [] at = <<"restore_sched", "entry">> -> restore_sched_entry(h)
       [] at = <<"restore_sched", "load">> -> restore_sched_load(h)
       [] at = <<"restore_sched", "empty_save">> -> RestoreReturn(h, PendingPop(h, Top(h).i), "empty")
       [] at = <<"restore_sched", "on_call">> -> restore_sched_on_call(h)
       [] at = <<"restore_sched", "off_call">> -> restore_sched_off_call(h)
       [] at = <<"restore_sched", "act">> -> RunSchedulerActions(h, Top(h), Top(h).todo)
       [] at = <<"restore_sched", "save">> -> RestoreReturn(h, PendingPop(h, Top(h).i), "restored")
       [] at = <<"finish_boost", "entry">> -> finish_boost_entry(h)
       [] at = <<"finish_boost", "get_timer">> -> finish_boost_get_timer(h)
       [] at = <<"finish_boost", "cancel">> ->
           Await(Invoke(h, SvcCall("number.set_value", Top(h).i, {}, 0)),
                  At(Top(h), "selector"))
       [] at = <<"finish_boost", "selector">> -> finish_boost_selector(h)
       [] at = <<"finish_boost", "active_off">> -> finish_boost_active_off(h)
       [] at = <<"finish_boost", "has_snapshot">> -> finish_boost_has_snapshot(h)
       [] at = <<"finish_boost", "temp_only">> -> FinishReturn(h)
       [] at = <<"finish_boost", "pre_temp">> -> finish_boost_pre_temp(h)
       [] at = <<"finish_boost", "scheduler">> -> FinishReturn(h)
       [] at = <<"start_boost", "entry">> -> start_boost_entry(h)
       [] at = <<"start_boost", "get_timer">> -> start_boost_get_timer(h)
       [] at = <<"start_boost", "store_temp">> -> StartBoostResolve(h, Top(h))
       [] at = <<"start_boost", "set">> -> start_boost_set(h)
       [] at = <<"start_boost", "timer_start">> ->
           Await(Invoke(h, SvcCall("boost_active.turn_on", Top(h).i, {}, 0)),
                  At(Top(h), "active_on"))
       [] at = <<"start_boost", "active_on">> -> start_boost_active_on(h)
       [] at = <<"start_boost", "scene">> -> start_boost_scene(h)
       [] at = <<"start_boost", "sched_off">> ->
           (IF ~h.cur.ok THEN Raise(h) ELSE Return(h, 0))
       [] at = <<"async_added_to_hass", "entry">> -> sensor_entry(h)
       [] at = <<"async_added_to_hass", "get_timer">> -> sensor_get_timer(h)
       [] at = <<"async_added_to_hass", "restore">> -> SensorAttach(h, Top(h))
       [] at = <<"override_turn_on", "entry">> -> override_turn_on_entry(h)
       [] at = <<"override_turn_on", "scene">> -> override_turn_on_scene(h)
       [] at = <<"override_turn_on", "off">> ->
           (IF ~h.cur.ok THEN Raise(h)
             ELSE Return(OverrideSet(h, Top(h).i, TRUE), 0))
       [] at = <<"override_turn_off", "entry">> -> override_turn_off_entry(h)
       [] at = <<"override_turn_off", "restore">> -> Return(h, 0)
       [] at = <<"remove_entry", "entry">> -> remove_entry_entry(h)
       [] at = <<"remove_entry", "set_end">> ->
            Await(h, [At(f, "sched_load") EXCEPT !.data = h.disk.sched])
       [] at = <<"remove_entry", "sched_load">> -> remove_entry_sched_load(h)
       [] at = <<"remove_entry", "sched_save">> -> remove_entry_sched_save(h)
       [] at = <<"remove_entry", "temp_load">> -> remove_entry_temp_load(h)
       [] at = <<"remove_entry", "temp_save">> -> Return(h, 0)

\* A propagating exception leaves the top frame; the finally clause of
\* async_finish_boost_for_entry runs on the way.
Unwind(h) ==
  LET f == Top(h)
      h1 == IF f.fn = "finish_boost" /\ f.pc # "entry"
            THEN [h EXCEPT !.mem.finish_in_progress = @ \ {f.i}] ELSE h
  IN [h1 EXCEPT !.cur.frames = SubSeq(@, 1, Len(@) - 1)]

RECURSIVE Drive(_)
Drive(h) ==
  LET Go(x) == IF x.cur.frames = <<>> THEN x
               ELSE IF x.exc THEN Drive(Unwind(x))
               ELSE IF x.susp THEN x
               ELSE Drive(Step(x))
  IN CHOOSE r \in {Go(x) : x \in {h}} : TRUE

\* What a coroutine sees when it starts: kept to state what it changed.
PreState ==
  [set |-> TRUE, now |-> now, disk |-> disk, ent |-> ent, tobj |-> mem.tobj,
   timers |-> mem.timers]

\* Coroutine t as it resumes: the service call it awaited, if any, has been
\* performed (ok) or has raised.
Started(t, ok) ==
  LET t0 == IF t.begun THEN t
            ELSE [t EXCEPT !.begun = TRUE,
                           !.pre = IF t.via = "service" THEN PreState ELSE @]
  IN IF t.begun /\ t.wait = "service"
     THEN [t0 EXCEPT !.wait = "store", !.ok = ok, !.saving = NoSave,
                     !.calls = Append(@, [svc |-> t.call.svc, i |-> t.call.i,
                                          targets |-> t.call.targets, v |-> t.call.v,
                                          ok |-> ok])]
     ELSE [t0 EXCEPT !.wait = "store", !.saving = NoSave]

Resumed(ts, n, ok) ==
  LET t == ts[n]
      e == IF t.begun /\ t.wait = "service" /\ ok THEN Served(ent, t.call) ELSE ent
  IN Drive([now |-> now, celsius |-> celsius, disk |-> disk, ent |-> e, mem |-> mem,
            hist |-> hist, cur |-> Started(t, ok), spawn |-> <<>>, susp |-> FALSE,
            exc |-> FALSE, ret |-> 0, out |-> <<>>, blocked |-> FALSE])

\* What is observed when a coroutine ends.
Done(h) ==
  [type |-> "done", ok |-> ~h.exc, root |-> h.cur.root, via |-> h.cur.via,
   alone |-> h.cur.alone, calls |-> h.cur.calls, path |-> h.cur.path,
   d |-> h.cur.d, dec |-> h.cur.dec, pre |-> h.cur.pre]

Interfered(t) == [t EXCEPT !.alone = FALSE, !.pre = [set |-> FALSE]]

\* The event loop runs coroutine n of ts until it awaits or ends; every other
\* coroutine in flight has then been interleaved with, unless all that ran
\* was a finish that its guard dropped.
\* Coroutine t is suspended in async_initialize, awaiting the store's load.
LoadWaiting(t) ==
  t.begun /\ t.frames # <<>> /\ t.frames[Len(t.frames)].pc = "init_load"

\* The load has completed for one of the coroutines that awaited it and the
\* others have not run yet.  They are resumed by the same completion, so
\* they run before any other coroutine does.
Landing(ts) == mem.regInit /\ \E m \in 1..Len(ts) : LoadWaiting(ts[m])

Run(ts, n, ok) ==
  \E h \in {Resumed(ts, n, ok)} :
    LET done == h.cur.frames = <<>>
        dropped == done /\ h.cur.path = "dropped"
        rest == [m \in 1..Len(ts) |->
                   IF m = n THEN h.cur
                   ELSE IF dropped THEN ts[m] ELSE Interfered(ts[m])]
        kept == SelectSeq([m \in 1..Len(ts) |-> [t |-> rest[m], keep |-> m # n \/ ~done]],
                          LAMBDA r : r.keep)
    IN /\ ~h.blocked
       /\ Landing(ts) => LoadWaiting(ts[n])
       /\ disk' = h.disk
       /\ ent' = h.ent
       /\ mem' = h.mem
       /\ hist' = h.hist
       /\ tasks' = [m \in 1..Len(kept) |-> kept[m].t] \o h.spawn
       /\ ev' = h.out \o (IF done THEN <<Done(h)>> ELSE <<>>)
       /\ UNCHANGED <<now, celsius>>

\* ------------------------------------------------------------ process start
\* hass.data[DOMAIN] after async_setup_entry of every instance: nothing
\* loaded from the stores yet, no timer, the finish listener and callback
\* registered.
FreshMem ==
  [loaded |-> [i \in Inst |-> TRUE],
   regInit |-> FALSE, regData |-> EmptyDoc,
   regLoad |-> [active |-> FALSE, doc |-> EmptyDoc],
   timers |-> [i \in Inst |-> NoTimer], tobj |-> <<>>,
   finish_in_progress |-> {}, finish_listener |-> TRUE, finish_callback |-> TRUE,
   restore_pending |-> [i \in Inst |-> NoPending],
   restore_unsub |-> [i \in Inst |-> FALSE],
   stabilize_pending |-> {}, stabilize_unsub |-> [i \in Inst |-> NoStabilize],
   retrigger_pending |-> {}, retrigger_unsub |-> [i \in Inst |-> FALSE],
   call_later |-> [i \in Inst |-> NoCallLater]]

\* Nothing has happened yet; offline says which instances' persisted ends
\* were in the past when the process started.
FreshHist(d) ==
  [created |-> [i \in Inst |-> 0], fired |-> [i \in Inst |-> <<>>],
             executed |-> [i \in Inst |-> 0],
   offline |-> [i \in Inst |->
                  /\ d.timer[i] # NoEnd
                  /\ utc_from_timestamp(d.timer[i]) <= now]]

\* The platforms add one BoostFinishSensor per instance.
SetupTasks == <<NewTask(F_sensor("a"), "setup"), NewTask(F_sensor("b"), "setup")>>

\* A new installation: empty stores, both flags off, instance a configured
\* with a boost temperature and a duration on its slider, instance b with
\* neither; every scheduler switch available and on.
Init ==
  /\ now = 1
  /\ celsius = FALSE
  /\ disk = [timer |-> EmptyDoc,
             sched |-> [i \in Inst |-> NoSnapshot],
             temp |-> [i \in Inst |-> NoTemp]]
  /\ ent = [boostActive |-> [i \in Inst |-> FALSE],
            override |-> [i \in Inst |-> FALSE],
            selector |-> [a |-> 1, b |-> 0],
            boostTemp |-> [a |-> Temp.slider, b |-> NoTemp],
            target |-> [i \in Inst |-> Temp.pre],
            swOn |-> [s \in Sw |-> TRUE],
            swAvail |-> [s \in Sw |-> TRUE],
            sensorEnd |-> [i \in Inst |-> NoEnd]]
  /\ mem = FreshMem
  /\ tasks = SetupTasks
  /\ hist = [created |-> [i \in Inst |-> 0], fired |-> [i \in Inst |-> <<>>],
             executed |-> [i \in Inst |-> 0],
             offline |-> [i \in Inst |-> FALSE]]
  /\ ops = [user |-> 0, fault |-> 0, gets |-> 0]
  /\ ev = <<>>

\* ------------------------------------------------------------------ actions
Quiet == /\ ev' = <<>>
         /\ tasks' = [m \in 1..Len(tasks) |-> Interfered(tasks[m])]

\* A run has at most MaxOps user operations and faults, at most MaxFaults of
\* them faults; a user operation arrives with fewer than MaxTasks coroutines
\* in flight.
Budget == /\ ops.user + ops.fault < MaxOps
          /\ ops' = [ops EXCEPT !.user = @ + 1]
          /\ Len(tasks) < MaxTasks

Fault == /\ ops.user + ops.fault < MaxOps
         /\ ops.fault < MaxFaults
         /\ ops' = [ops EXCEPT !.fault = @ + 1]

\* The duration arguments a caller may pass to the start_boost service.
StartInputs ==
  {[i |-> "a", time |-> TimeNone, temperature_c |-> NoTemp],
   [i |-> "a", time |-> TimeDict(0, 30), temperature_c |-> Temp.arg],
   [i |-> "a", time |-> TimeStr(<<P(0), P(0), P(0)>>), temperature_c |-> Temp.arg],
   [i |-> "a", time |-> TimeStr(<<P(0), NotInt, P(0)>>), temperature_c |-> NoTemp],
   [i |-> "a", time |-> TimeOther, temperature_c |-> Temp.arg],
   [i |-> "b", time |-> TimeStr(<<P(2), P(0), P(0)>>), temperature_c |-> Temp.arg],
   [i |-> "b", time |-> TimeNone, temperature_c |-> NoTemp]}

\* The start_boost service.
StartBoost(i, time, temperature_c) ==
  /\ Budget
  /\ Run(Append(tasks, NewTask(F_start(i, time, temperature_c), "service")),
         Len(tasks) + 1, TRUE)

\* A caller other than the sensor (async_start_boost_for_entry,
\* async_finish_boost_for_entry) awaits the registry's async_get_timer.
GetOrCreate(i) ==
  /\ ops.gets < MaxGets
  /\ ops' = [ops EXCEPT !.gets = @ + 1]
  /\ Run(Append(tasks, NewTask(F_get_timer(i), "service")), Len(tasks) + 1, TRUE)

\* The finish_boost service.
FinishBoost(i) ==
  /\ Budget
  /\ Run(Append(tasks, NewTask(F_finish(i, FALSE), "service")), Len(tasks) + 1, TRUE)

\* The finish_boost service while another coroutine is in flight.
FinishBoostBusy(i) ==
  /\ ops.user + ops.fault < MaxOps
  /\ ops' = [ops EXCEPT !.user = @ + 1]
  /\ Len(tasks) = MaxTasks
  /\ Run(Append(tasks, NewTask(F_finish(i, FALSE), "service")), Len(tasks) + 1, TRUE)

\* The user turns the "Disable Schedules" switch on or off.
OverrideTurnOn(i) ==
  /\ Budget
  /\ mem.loaded[i]
  /\ Run(Append(tasks, NewTask(F_ovon(i), "service")), Len(tasks) + 1, TRUE)

\* The user turns the switch on while another coroutine is in flight.
OverrideTurnOnBusy(i) ==
  /\ ops.user + ops.fault < MaxOps
  /\ ops' = [ops EXCEPT !.user = @ + 1]
  /\ Len(tasks) = MaxTasks
  /\ mem.loaded[i]
  /\ Run(Append(tasks, NewTask(F_ovon(i), "service")), Len(tasks) + 1, TRUE)

OverrideTurnOff(i) ==
  /\ Budget
  /\ mem.loaded[i]
  /\ Run(Append(tasks, NewTask(F_ovoff(i), "service")), Len(tasks) + 1, TRUE)

\* The user deletes the instance: Home Assistant unloads the config entry
\* and then calls async_remove_entry.
RemoveEntry(i) ==
  /\ Budget
  /\ mem.loaded[i]
  /\ Run(Append(tasks, NewTask(F_remove(i), "service")), Len(tasks) + 1, TRUE)

Plain == [now |-> now, celsius |-> celsius, disk |-> disk, ent |-> ent, mem |-> mem,
          hist |-> hist, spawn |-> <<>>]

\* The instance is unloaded (a reload of the integration, or the entry is
\* disabled), once its own setup is over; other coroutines may be in flight.
UnloadEntry(i) ==
  /\ ops.user + ops.fault < MaxOps
  /\ ops' = [ops EXCEPT !.user = @ + 1]
  /\ Len(tasks) <= MaxTasks
  /\ \A n \in 1..Len(tasks) : tasks[n].root # F_sensor(i)
  /\ mem.loaded[i]
  /\ mem' = async_unload_entry(Plain, i).mem
  /\ Quiet
  /\ UNCHANGED <<now, celsius, disk, ent, hist>>

\* async_setup_entry of an unloaded instance: hass.data holds the entry
\* again and the sensor platform adds its BoostFinishSensor.
SetupEntry(i) ==
  /\ Budget
  /\ ~mem.loaded[i]
  /\ mem' = [mem EXCEPT !.loaded[i] = TRUE]
  /\ tasks' = Append(tasks, NewTask(F_sensor(i), "setup"))
  /\ ev' = <<>>
  /\ UNCHANGED <<now, celsius, disk, ent, hist>>

\* A store load or save that a coroutine awaits completes.
StoreDone(n) ==
  /\ tasks[n].begun
  /\ tasks[n].wait = "store"
  /\ Run(tasks, n, TRUE)
  /\ UNCHANGED ops

\* A blocking service call that a coroutine awaits completes (ok) or raises
\* HomeAssistantError.
ServiceDone(n, ok) ==
  /\ tasks[n].begun
  /\ tasks[n].wait = "service"
  /\ IF ok THEN UNCHANGED ops ELSE Fault
  /\ Run(tasks, n, ok)

\* The event loop starts a coroutine that hass.add_job or async_create_task
\* scheduled.
TaskStart(n) ==
  /\ ~tasks[n].begun
  /\ Run(tasks, n, TRUE)
  /\ UNCHANGED ops

\* Time passes.  A tick is long compared with a coroutine and with the delays
\* of the delayed callbacks: the clock advances between coroutines, and
\* after the callbacks that are due have fired.
Tick ==
  /\ now < MaxTime
  /\ tasks = <<>>
  /\ \A k \in 1..Len(mem.tobj) : ~(mem.tobj[k].armed /\ mem.tobj[k].armedAt <= now)
  /\ \A i \in Inst : mem.call_later[i] = NoCallLater
  /\ now' = now + 1
  /\ ev' = <<>>
  /\ UNCHANGED <<celsius, disk, ent, mem, tasks, hist, ops>>

\* The due-time callback of timer k, armed with async_track_point_in_utc_time,
\* fires once its time has come.
DueFire(k) ==
  LET h == _handle_finish([Plain EXCEPT !.mem.tobj[k].armed = FALSE], k, now)
  IN /\ mem.tobj[k].armed
     /\ mem.tobj[k].armedAt <= now
     /\ mem' = h.mem
     /\ tasks' = tasks \o h.spawn
     /\ ev' = <<>>
     /\ UNCHANGED <<now, celsius, disk, ent, hist, ops>>

\* _retry losing the restore it was to start.
RetryFireLost(i) ==
  /\ mem.call_later[i].retry > 0
  /\ mem' = [mem EXCEPT !.restore_unsub[i] = FALSE, !.restore_pending[i] = NoPending,
                        !.call_later[i].retry = @ - 1]
  /\ ev' = <<>>
  /\ UNCHANGED <<now, celsius, disk, ent, tasks, hist, ops>>

\* _retry: the delayed retry of a scheduler restore.
RetryFire(i) ==
  LET expired_offline == mem.restore_pending[i].has /\ mem.restore_pending[i].v
  IN /\ mem.call_later[i].retry > 0
     /\ mem' = [mem EXCEPT !.restore_unsub[i] = FALSE, !.restore_pending[i] = NoPending,
                           !.call_later[i].retry = @ - 1]
     /\ tasks' = Append(tasks, NewTask(F_rsched(i, expired_offline, FALSE), "retry"))
     /\ ev' = <<>>
     /\ UNCHANGED <<now, celsius, disk, ent, hist, ops>>

\* _stabilized_restore: the delayed restore after an offline expiry.
StabilizeFire(i) ==
  /\ mem.stabilize_unsub[i].set
  /\ mem' = [mem EXCEPT !.stabilize_unsub[i] = NoStabilize,
                        !.stabilize_pending = @ \ {i},
                        !.call_later[i].stabilize = @ - 1]
  /\ tasks' = Append(tasks, NewTask(F_rsched(i, mem.stabilize_unsub[i].exp, TRUE),
                                    "stabilize"))
  /\ ev' = <<>>
  /\ UNCHANGED <<now, celsius, disk, ent, hist, ops>>

\* Scheduler switches become unavailable or available again: one switch, or
\* all of them with the scheduler integration.
SetAvailable(S, v) ==
  /\ Fault
  /\ \E s \in S : ent.swAvail[s] # v
  /\ ent' = [ent EXCEPT !.swAvail = [s \in Sw |-> IF s \in S THEN v ELSE @[s]]]
  /\ Quiet
  /\ UNCHANGED <<now, celsius, disk, mem, hist>>

\* The save that u describes is the last one of its store.
Latest(u) ==
  CASE u.store = "save_timer" -> disk.timer = u.new
    [] u.store = "save_temp" -> disk.temp = u.new
    [] u.store = "save_sched" -> disk.sched = u.new

\* The stores without the save that u describes.
Lost(u) ==
  CASE u.store = "save_timer" -> [disk EXCEPT !.timer = u.old]
    [] u.store = "save_temp" -> [disk EXCEPT !.temp = u.old]
    [] u.store = "save_sched" -> [disk EXCEPT !.sched = u.old]

\* The process stops and starts again: the stores and the entity states
\* (restored by RestoreEntity) survive, hass.data and the coroutines in flight
\* do not; every instance is set up again.  A save that coroutine n still
\* awaits may not have reached the store (n = 0: every save has).
Restart(n) ==
  LET d == IF n = 0 THEN disk ELSE Lost(tasks[n].saving)
  IN /\ Fault
     /\ n > 0 => /\ tasks[n].begun
                 /\ tasks[n].wait = "store"
                 /\ tasks[n].saving.set
                 /\ Latest(tasks[n].saving)
     /\ disk' = d
     /\ mem' = FreshMem
     /\ tasks' = SetupTasks
     /\ hist' = FreshHist(d)
     /\ ev' = <<>>
     /\ UNCHANGED <<now, celsius, ent>>

Next ==
  \/ \E c \in StartInputs : StartBoost(c.i, c.time, c.temperature_c)
  \/ \E i \in Inst : FinishBoost(i)
  \/ \E i \in Inst : OverrideTurnOn(i)
  \/ \E i \in Inst : OverrideTurnOff(i)
  \/ \E n \in 1..Len(tasks) : StoreDone(n)
  \/ \E n \in 1..Len(tasks), ok \in BOOLEAN : ServiceDone(n, ok)
  \/ \E n \in 1..Len(tasks) : TaskStart(n)
  \/ Tick
  \/ \E k \in 1..Len(mem.tobj) : DueFire(k)
  \/ \E i \in Inst : RetryFire(i)
  \/ \E i \in Inst : StabilizeFire(i)
  \/ \E S \in {{"s1"}, Sw}, v \in BOOLEAN : SetAvailable(S, v)
  \/ \E n \in 0..Len(tasks) : Restart(n)

Spec == Init /\ [][Next]_vars

\* ---------------------------------------------- start of a stopped process
\* What a process start finds when the process stopped during a boost of
\* instance a that began at time 1 with the configured half hour: the
\* persisted end, both snapshots, the flag on, the boost setpoint, the
\* schedules off.  The process starts before the end or at it.
RestartedInit ==
  /\ now \in {1, 2}
  /\ celsius = FALSE
  /\ disk = [timer |-> [EmptyDoc EXCEPT !["a"] = as_timestamp(2)],
             sched |-> [[i \in Inst |-> NoSnapshot] EXCEPT
                          !["a"] = [has |-> TRUE, m |-> [s \in Sw |-> "on"]]],
             temp |-> [[i \in Inst |-> NoTemp] EXCEPT !["a"] = Temp.pre]]
  /\ ent = [boostActive |-> [a |-> TRUE, b |-> FALSE],
            override |-> [i \in Inst |-> FALSE],
            selector |-> [a |-> 1, b |-> 0],
            boostTemp |-> [a |-> Temp.slider, b |-> NoTemp],
            target |-> [a |-> ToDisplayUnit(Temp.slider, FALSE), b |-> Temp.pre],
            swOn |-> [s \in Sw |-> FALSE],
            swAvail |-> [s \in Sw |-> TRUE],
            sensorEnd |-> [a |-> 2, b |-> NoEnd]]
  /\ mem = FreshMem
  /\ tasks = SetupTasks
  /\ hist = FreshHist(disk)
  /\ ops = [user |-> MaxOps, fault |-> MaxFaults, gets |-> 0]
  /\ ev = <<>>

\* The setup of the restarted process, with other callers of the registry
\* arriving while it runs and no fault.
SetupNext ==
  \/ \E i \in Inst : GetOrCreate(i)
  \/ \E n \in 1..Len(tasks) : StoreDone(n)
  \/ \E n \in 1..Len(tasks) : ServiceDone(n, TRUE)
  \/ \E n \in 1..Len(tasks) : TaskStart(n)
  \/ \E k \in 1..Len(mem.tobj) : DueFire(k)
  \/ \E i \in Inst : StabilizeFire(i)

SetupSpec == RestartedInit /\ [][SetupNext]_vars

\* -------------------------------------------- restores after a process start
\* The process stopped during a boost of instance a that had captured
\* schedule s1 on and schedule s2 off.  It starts before the end or at it,
\* with the scheduler's switches already available or not yet.
RestoreInit ==
  /\ now \in {1, 2}
  /\ celsius = FALSE
  /\ disk = [timer |-> [EmptyDoc EXCEPT !["a"] = as_timestamp(2)],
             sched |-> [[i \in Inst |-> NoSnapshot] EXCEPT
                          !["a"] = [has |-> TRUE, m |-> [s1 |-> "on", s2 |-> "off"]]],
             temp |-> [[i \in Inst |-> NoTemp] EXCEPT !["a"] = Temp.pre]]
  /\ \E available \in BOOLEAN :
       ent = [boostActive |-> [a |-> TRUE, b |-> FALSE],
              override |-> [i \in Inst |-> FALSE],
              selector |-> [a |-> 1, b |-> 0],
              boostTemp |-> [a |-> Temp.slider, b |-> NoTemp],
              target |-> [a |-> ToDisplayUnit(Temp.slider, FALSE), b |-> Temp.pre],
              swOn |-> [s \in Sw |-> FALSE],
              swAvail |-> [s \in Sw |-> available],
              sensorEnd |-> [a |-> 2, b |-> NoEnd]]
  /\ mem = FreshMem
  /\ tasks = SetupTasks
  /\ hist = FreshHist(disk)
  /\ ops = [user |-> 0, fault |-> 0, gets |-> 0]
  /\ ev = <<>>

\* What follows for instance a: the user's operations, the delayed callbacks,
\* a failing service call, and the scheduler's switches appearing or
\* disappearing between coroutines.
RestoreNext ==
  \/ FinishBoost("a")
  \/ \E c \in {x \in StartInputs : x.i = "a" /\ x.time.kind = "dict"} :
       StartBoost(c.i, c.time, c.temperature_c)
  \/ OverrideTurnOn("a")
  \/ OverrideTurnOnBusy("a")
  \/ OverrideTurnOff("a")
  \/ RemoveEntry("a")
  \/ \E n \in 1..Len(tasks) : StoreDone(n)
  \/ \E n \in 1..Len(tasks), ok \in BOOLEAN : ServiceDone(n, ok)
  \/ \E n \in 1..Len(tasks) : TaskStart(n)
  \/ \E k \in 1..Len(mem.tobj) : DueFire(k)
  \/ \E i \in Inst : RetryFire(i)
  \/ \E i \in Inst : StabilizeFire(i)
  \/ tasks = <<>> /\ \E v \in BOOLEAN : SetAvailable(Sw, v)

RestoreSpec == RestoreInit /\ [][RestoreNext]_vars

\* ------------------------------------------------- unloading and reloading
\* The process started during a boost of instance a; the instance is
\* unloaded and set up again while time passes.
UnloadNext ==
  \/ UnloadEntry("a")
  \/ SetupEntry("a")
  \/ \E i \in Inst : FinishBoostBusy(i)
  \/ \E n \in 1..Len(tasks) : StoreDone(n)
  \/ \E n \in 1..Len(tasks), ok \in BOOLEAN : ServiceDone(n, ok)
  \/ \E n \in 1..Len(tasks) : TaskStart(n)
  \/ \E k \in 1..Len(mem.tobj) : DueFire(k)
  \/ \E i \in Inst : RetryFire(i)
  \/ \E i \in Inst : StabilizeFire(i)
  \/ Tick

UnloadSpec == RestoreInit /\ [][UnloadNext]_vars

\* The event loop runs every coroutine and callback it has scheduled, awaited
\* loads, saves and service calls complete, and time passes.
Fairness ==
  /\ WF_vars(\E n \in 1..Len(tasks) : StoreDone(n))
  /\ WF_vars(\E n \in 1..Len(tasks) : ServiceDone(n, TRUE))
  /\ WF_vars(\E n \in 1..Len(tasks) : TaskStart(n))
  /\ WF_vars(\E k \in 1..Len(mem.tobj) : DueFire(k))
  /\ WF_vars(\E i \in Inst : RetryFire(i))
  /\ WF_vars(\E i \in Inst : StabilizeFire(i))
  /\ WF_vars(Tick)

FairSpec == Spec /\ Fairness

\* The same for the restores after a process start; the clock does not
\* advance there.
RestoreFairness ==
  /\ WF_vars(\E n \in 1..Len(tasks) : StoreDone(n))
  /\ WF_vars(\E n \in 1..Len(tasks) : ServiceDone(n, TRUE))
  /\ WF_vars(\E n \in 1..Len(tasks) : TaskStart(n))
  /\ WF_vars(\E k \in 1..Len(mem.tobj) : DueFire(k))
  /\ WF_vars(\E i \in Inst : RetryFire(i))
  /\ WF_vars(\E i \in Inst : StabilizeFire(i))

FairRestoreSpec == RestoreSpec /\ RestoreFairness

\* ------------------------------------------------------------ observations
Count(calls, svc) == Cardinality({n \in 1..Len(calls) : calls[n].svc = svc})

\* The coroutines of fn that ended in the last step.
DoneOf(fn) == {j \in 1..Len(ev) : ev[j].type = "done" /\ ev[j].root.fn = fn}

\* The finish_boost coroutines of instance i that are past the guard.
Finishing(i) ==
  {n \in 1..Len(tasks) : /\ tasks[n].begun
                         /\ tasks[n].root.fn = "finish_boost"
                         /\ tasks[n].root.i = i}

\* C1: a finish_boost started for an instance while an earlier one for that
\* instance has not returned is dropped with no side effect: at any time at
\* most one finish_boost per instance is past the guard, and it is there
\* exactly while the instance is in the in-progress set; the start of another
\* one changes nothing, creates nothing and makes no call; and a finish_boost
\* that runs to its end cancels the timer once, attempts the temperature
\* restore once and the scheduler restore at most once.
C1_OneExecution ==
  /\ \A i \in Inst : Cardinality(Finishing(i)) <= 1
  /\ \A i \in Inst : (i \in mem.finish_in_progress) <=> (Finishing(i) # {})
  /\ \A j \in DoneOf("finish_boost") :
       IF ev[j].path = "dropped" THEN ev[j].calls = <<>>
       ELSE ev[j].ok /\ ev[j].path # "no_entry" =>
              /\ Count(ev[j].calls, "timer.async_cancel") = 1
              /\ Count(ev[j].calls, "restore_temperature") = 1
              /\ Count(ev[j].calls, "restore_scheduler") <= 1

C1_DroppedStep ==
  \A n \in 1..Len(tasks) :
    (/\ ~tasks[n].begun
     /\ tasks[n].root.fn = "finish_boost"
     /\ tasks[n].root.i \in mem.finish_in_progress
     /\ TaskStart(n))
    => /\ UNCHANGED <<now, disk, ent, mem, hist>>
       /\ Len(tasks') = Len(tasks) - 1
       /\ DoneOf("finish_boost")' # {}
       /\ \A j \in DoneOf("finish_boost")' : ev'[j].path = "dropped"

C1_Theorem == []C1_OneExecution /\ [][C1_DroppedStep]_vars

C1_Witness ==
  \E j \in DoneOf("finish_boost") :
    /\ ev[j].path = "dropped"
    /\ ev[j].root.i \in mem.finish_in_progress

\* The timer the registry holds for instance i is idle.
TimerIdle(i) ==
  mem.timers[i] = NoTimer \/ mem.tobj[mem.timers[i]].end = NoEnd

\* A start_boost for instance i with a positive duration has just returned,
\* its end within the time the model covers, and no fault has occurred.
StartedOk(i) ==
  /\ ops.fault = 0
  /\ \E j \in DoneOf("start_boost") :
       /\ ev[j].root.i = i
       /\ ev[j].ok
       /\ ev[j].d > 0
       /\ now + ev[j].d <= MaxTime

\* Nothing is left that would end the boost of instance i: its flag is on,
\* its timer is idle in memory, on disk and on the sensor a restart restores
\* the timer from, no coroutine is in flight, and no due-time or delayed
\* callback is armed.
Stuck(i) ==
  /\ mem.loaded[i]
  /\ ent.boostActive[i]
  /\ TimerIdle(i)
  /\ disk.timer[i] = NoEnd
  /\ ent.sensorEnd[i] = NoEnd
  /\ tasks = <<>>
  /\ \A k \in 1..Len(mem.tobj) : ~mem.tobj[k].armed
  /\ \A j \in Inst : ~mem.restore_unsub[j] /\ ~mem.stabilize_unsub[j].set

\* C2: after a start_boost with a positive duration has succeeded, with the
\* instance loaded and time advancing, eventually the timer is idle, the
\* boost flag is off and the restore policy has run.  The boost can only end
\* through a coroutine in flight, an armed callback or the timer a restart
\* restores, so the claim needs that a start_boost that succeeded never
\* leaves the instance with none of them and its flag on.
C2_BoostEnds == \A i \in Inst : StartedOk(i) => ~Stuck(i)

\* Once nothing is left to end the boost, only a new user operation or a
\* fault changes that.
C2_StuckStays ==
  \A i \in Inst : Stuck(i) /\ ops' = ops => Stuck(i)'

C2_StuckForever == [][C2_StuckStays]_vars

\* -------------------------------------------------------------- C3 .. C5
TrueCount(flags) == Cardinality({n \in 1..Len(flags) : flags[n]})

\* The get-or-create calls for instance i that returned in the last step
\* after finishing a timer that expired while the process was down.
Restored(i) ==
  {j \in 1..Len(ev) : ev[j].type = "timer_restored" /\ ev[j].i = i}

\* C3: for an instance whose persisted end was in the past when the process
\* started, at most one timer-finished event carries expired_while_offline,
\* once the first get-or-create has returned exactly one does, and when it
\* returns that event is the only one, the timer is idle, the persisted end
\* is removed and no due-time callback is armed.  (The instance has one
\* timer object: no second get-or-create overlapped the first.)
C3_OfflineExpiry ==
  \A i \in Inst :
    hist.offline[i] =>
      /\ TrueCount(hist.fired[i]) <= 1
      /\ hist.created[i] = 1 /\ mem.timers[i] # NoTimer
           => TrueCount(hist.fired[i]) = 1
      /\ \A j \in Restored(i) :
           hist.created[i] = 1 =>
             /\ hist.fired[i] = <<TRUE>>
             /\ mem.timers[i] = ev[j].k
             /\ snapshot(mem.tobj[ev[j].k], now) =
                  [remaining |-> 0, status |-> "idle", end |-> NoEnd]
             /\ ~mem.tobj[ev[j].k].armed
             /\ disk.timer[i] = NoEnd
             /\ mem.regData[i] = NoEnd

C3_Witness ==
  \E i \in Inst : hist.offline[i] /\ hist.created[i] = 1 /\ Restored(i) # {}

\* The finish_boost coroutines that ended in the last step after choosing a
\* branch of the restore policy.
FinishDecided ==
  {j \in DoneOf("finish_boost") : ev[j].path \in {"temperature", "scheduler"}}

\* C4 as the specification states it: finish_boost takes the temperature-only
\* branch exactly when the override flag is on, or no scheduler entity
\* matches the thermostat, or the instance has no scheduler snapshot.
C4_TemperatureOnlyIff ==
  \A j \in FinishDecided :
    (ev[j].path = "temperature")
      <=> (ev[j].dec.override \/ ev[j].dec.no_schedules \/ ~ev[j].dec.has)

\* C4 as the code decides: finish_boost takes the temperature-only branch
\* (one temperature restore, no scheduler restore attempt) exactly when the
\* override flag is on or the instance has no scheduler snapshot, and the
\* scheduler branch (one temperature restore, then one scheduler restore
\* attempt) otherwise, whether or not a scheduler entity matches.
C4_Amended ==
  \A j \in FinishDecided :
    /\ (ev[j].path = "temperature") <=> (ev[j].dec.override \/ ~ev[j].dec.has)
    /\ Count(ev[j].calls, "restore_temperature") = 1
    /\ ev[j].path = "temperature" => Count(ev[j].calls, "restore_scheduler") = 0
    /\ ev[j].path = "scheduler" /\ ev[j].ok
         => Count(ev[j].calls, "restore_scheduler") = 1

C4_Witness ==
  \E j \in FinishDecided :
    /\ ev[j].path = "scheduler"
    /\ ev[j].dec.has /\ ev[j].dec.no_schedules /\ ~ev[j].dec.override

\* What a coroutine did to scheduler state: snapshot writes, switch calls on
\* scheduler entities, scheduler actions, restore attempts.
SchedulerSteps ==
  {"save_sched", "switch.turn_on", "switch.turn_off", "scheduler.run_action",
   "restore_scheduler"}

SchedulerCalls(calls) ==
  Cardinality({n \in 1..Len(calls) : calls[n].svc \in SchedulerSteps})

\* C5: with the override flag on, a first-activation start_boost writes no
\* scheduler snapshot and turns no scheduler switch off, and a finish_boost
\* attempts the temperature restore only, writes no scheduler snapshot and
\* calls no switch service on scheduler entities; the stored snapshots and
\* the switches are as they were before the call.
C5_OverrideFrame ==
  /\ \A j \in DoneOf("start_boost") :
       ev[j].dec.read /\ ev[j].dec.override /\ ~ev[j].dec.boost_was_active =>
         /\ SchedulerCalls(ev[j].calls) = 0
         /\ ev[j].pre.set =>
              /\ disk.sched = ev[j].pre.disk.sched
              /\ ent.swOn = ev[j].pre.ent.swOn
  /\ \A j \in DoneOf("finish_boost") :
       ev[j].dec.read /\ ev[j].dec.override =>
         /\ ev[j].path = "temperature"
         /\ Count(ev[j].calls, "restore_temperature") = 1
         /\ SchedulerCalls(ev[j].calls) = 0
         /\ ev[j].pre.set =>
              /\ disk.sched = ev[j].pre.disk.sched
              /\ ent.swOn = ev[j].pre.ent.swOn

\* A finish_boost under the override flag, with a scheduler snapshot stored.
C5_Witness ==
  \E j \in DoneOf("finish_boost") :
    /\ ev[j].ok /\ ev[j].dec.read /\ ev[j].dec.override
    /\ disk.sched[ev[j].root.i].has

\* A first-activation start_boost under the override flag.
C5_StartCase ==
  \E j \in DoneOf("start_boost") :
    /\ ev[j].ok /\ ev[j].dec.read /\ ev[j].dec.override
    /\ ~ev[j].dec.boost_was_active /\ ev[j].pre.set

\* -------------------------------------------------------------- C6 .. C10
\* The position of the first call of calls that is one of steps; one past the
\* end when there is none.
FirstPos(calls, steps) ==
  LET at == {n \in 1..Len(calls) : calls[n].svc \in steps}
  IN IF at = {} THEN Len(calls) + 1
     ELSE CHOOSE n \in at : \A m \in at : n <= m

\* The finish_boost coroutines that ended in the last step on the scheduler
\* branch.
OnSchedulerPath == {j \in FinishDecided : ev[j].path = "scheduler"}

\* The temperature snapshot the finish found (NoTemp for none), and whether
\* its set-temperature call succeeded.
SnapshotFound(r) == r.calls[FirstPos(r.calls, {"restore_temperature"})].v

BaselineApplied(r) ==
  LET p == FirstPos(r.calls, {"restore_temperature"})
  IN /\ SnapshotFound(r) # NoTemp
     /\ p + 1 <= Len(r.calls)
     /\ r.calls[p + 1].svc = "climate.set_temperature"
     /\ r.calls[p + 1].v = SnapshotFound(r)
     /\ r.calls[p + 1].ok

SchedulerActionRan(r) ==
  \E n \in 1..Len(r.calls) : r.calls[n].svc = "scheduler.run_action" /\ r.calls[n].ok

\* The setpoints a boost applies, in the thermostat's display unit.
BoostSetpoints ==
  {ToDisplayUnit(Temp.arg, celsius), ToDisplayUnit(Temp.slider, celsius)}

C7_NoSideEffect ==
  \A j \in DoneOf("start_boost") :
    ev[j].path = "config_error" =>
      /\ ~ev[j].ok
      /\ ev[j].calls = <<>>
      /\ ev[j].pre.set =>
           /\ disk = ev[j].pre.disk
           /\ ent = ev[j].pre.ent
           /\ mem.tobj = ev[j].pre.tobj

\* The scheduler switches that match instance i's thermostat and were
\* available in state p.
MatchingIn(p, i) == get_scheduler_switches_for_thermostat(p, ThermostatName[i])

\* The boost temperature of a start_boost, in Celsius: the argument, or the
\* configured value.
BoostTemperature(r) ==
  IF r.root.temperature_c = NoTemp THEN r.pre.ent.boostTemp[r.root.i]
  ELSE r.root.temperature_c

\* The start_boost coroutines that ended in the last step, successful, with
\* a positive duration and nothing else having run since the call.
StartedAlone ==
  {j \in DoneOf("start_boost") : ev[j].ok /\ ev[j].pre.set /\ ev[j].d > 0}

TimerIs(i, end) ==
  /\ mem.timers[i] # NoTimer
  /\ mem.tobj[mem.timers[i]].end = end
  /\ mem.tobj[mem.timers[i]].armed
  /\ mem.tobj[mem.timers[i]].armedAt = end
  /\ disk.timer[i] = as_timestamp(end)
  /\ snapshot(mem.tobj[mem.timers[i]], now) =
       [remaining |-> end - now, status |-> "active", end |-> end]

\* C8: after a first-activation start_boost (boost flag and override flag
\* off) with a positive duration d returns, nothing else having run: the
\* temperature snapshot is the target before the call; the scheduler
\* snapshot is the on/off state before the call of every available matching
\* switch, and those switches are off; the target is the boost temperature
\* in the thermostat's display unit; the timer is active with its end d
\* after the call; the boost flag is on.
C8_FirstActivation ==
  \A j \in StartedAlone :
    LET r == ev[j]
        i == r.root.i
        p == r.pre
        M == MatchingIn(p, i)
    IN ~p.ent.boostActive[i] /\ ~p.ent.override[i] =>
         /\ disk.temp[i] = p.ent.target[i]
         /\ disk.sched[i] =
              (IF M = {} THEN p.disk.sched[i]
               ELSE [has |-> TRUE, m |-> [s \in M |-> StateOf(p, s)]])
         /\ \A s \in M : ~ent.swOn[s]
         /\ ent.target[i] = ToDisplayUnit(BoostTemperature(r), celsius)
         /\ TimerIs(i, p.now + r.d)
         /\ now = p.now
         /\ ent.boostActive[i]

C8_Witness ==
  \E j \in StartedAlone :
    /\ ~ev[j].pre.ent.boostActive[ev[j].root.i]
    /\ ~ev[j].pre.ent.override[ev[j].root.i]
    /\ \E s \in MatchingIn(ev[j].pre, ev[j].root.i) : ev[j].pre.ent.swOn[s]

\* The positions of the calls of one service in a coroutine's call log.
CallsOf(calls, svc) == {n \in 1..Len(calls) : calls[n].svc = svc}

\* C9: a start_boost that finds the boost flag on writes neither snapshot and
\* turns no scheduler switch off: all it calls is set-temperature, once, the
\* timer's save and the boost flag's turn-on.  Nothing else having run, the
\* temperature set is the boost temperature, both snapshot stores and the
\* switches are as before the call and the timer's end is the time of the
\* call plus the duration.
C9_Extension ==
  \A j \in DoneOf("start_boost") :
    LET r == ev[j]
        i == r.root.i
        S == CallsOf(r.calls, "climate.set_temperature")
    IN r.ok /\ r.dec.read /\ r.dec.boost_was_active =>
         /\ \A n \in 1..Len(r.calls) :
              r.calls[n].svc \in
                {"climate.set_temperature", "save_timer", "boost_active.turn_on"}
         /\ Cardinality(S) = 1
         /\ r.pre.set =>
              /\ \A n \in S :
                   r.calls[n].v = ToDisplayUnit(BoostTemperature(r), celsius)
              /\ ent.target[i] = ToDisplayUnit(BoostTemperature(r), celsius)
              /\ disk.temp = r.pre.disk.temp
              /\ disk.sched = r.pre.disk.sched
              /\ ent.swOn = r.pre.ent.swOn
              /\ r.d > 0 => TimerIs(i, r.pre.now + r.d)

C9_Witness ==
  \E j \in StartedAlone :
    /\ ev[j].dec.boost_was_active
    /\ ev[j].pre.disk.temp[ev[j].root.i] # NoTemp
    /\ ev[j].pre.disk.sched[ev[j].root.i].has

\* The calls of BoostTimer.async_start with a positive duration that returned
\* in the last step, nothing else having run since the call.
TimerStarted ==
  {j \in 1..Len(ev) : ev[j].type = "timer_started" /\ ev[j].alone /\ ev[j].d > 0}

TimerStartedZero ==
  {j \in 1..Len(ev) : ev[j].type = "timer_started" /\ ev[j].alone /\ ev[j].d <= 0}

\* The timer-finished events of timer k emitted in the last step.
FinishedEvents(k) ==
  {j \in 1..Len(ev) : ev[j].type = "timer_finished" /\ ev[j].k = k}

\* C11: async_start(d) with d <= 0 does what async_finish(False) does: when it
\* returns the end is cleared in memory and in the persisted map, no due-time
\* callback is armed, the listening sensor shows no end, and one
\* timer-finished event, with expired_while_offline false, has been emitted
\* since the call.
C11_StartZeroIsFinish ==
  \A j \in TimerStartedZero :
    LET k == ev[j].k
        i == ev[j].i
        t == mem.tobj[k]
    IN /\ t.end = NoEnd
       /\ mem.regData[i] = NoEnd
       /\ disk.timer[i] = NoEnd
       /\ ~t.armed
       /\ t.listening => ent.sensorEnd[i] = NoEnd
       /\ Len(hist.fired[i]) = ev[j].fired + 1
       /\ ~hist.fired[i][Len(hist.fired[i])]
       /\ Cardinality(FinishedEvents(k)) = 1
       /\ \A e \in FinishedEvents(k) : ~ev[e].exp /\ e < j

C11_Witness ==
  \E j \in TimerStartedZero : mem.tobj[ev[j].k].listening /\ ev[j].at > 1

\* The timer objects of instance i: the registered one and any other that a
\* coroutine still holds.
TimersOf(i) == {k \in 1..Len(mem.tobj) : mem.tobj[k].inst = i}

\* The persisted ends of instance i that a restart can find: the one in the
\* store, or the one a save still awaited replaces.
Recoverable(i) ==
  {disk.timer[i]} \cup
  {tasks[n].saving.old[i] :
     n \in {m \in 1..Len(tasks) : /\ tasks[m].saving.set
                                  /\ tasks[m].saving.store = "save_timer"
                                  /\ tasks[m].saving.new = disk.timer}}

\* C12: at every point where another coroutine, a callback or a restart can
\* come in, between the suspension points of async_start, async_cancel and
\* async_finish included, the end a timer object holds in memory is the
\* persisted end of its instance, whichever a restart would find.
C12_MemoryIsPersisted ==
  \A i \in Inst : \A k \in TimersOf(i) : \A ts \in Recoverable(i) :
    mem.tobj[k].end = (IF ts = NoEnd THEN NoEnd ELSE utc_from_timestamp(ts))

\* The state a restarted process starts in is one the installation reaches.
RestartedReachable ==
  /\ now = 2
  /\ tasks = SetupTasks
  /\ mem = FreshMem
  /\ disk = [timer |-> [EmptyDoc EXCEPT !["a"] = as_timestamp(2)],
             sched |-> [[i \in Inst |-> NoSnapshot] EXCEPT
                          !["a"] = [has |-> TRUE, m |-> [s \in Sw |-> "on"]]],
             temp |-> [[i \in Inst |-> NoTemp] EXCEPT !["a"] = Temp.pre]]
  /\ ent = [boostActive |-> [a |-> TRUE, b |-> FALSE],
            override |-> [i \in Inst |-> FALSE],
            selector |-> [a |-> 1, b |-> 0],
            boostTemp |-> [a |-> Temp.slider, b |-> NoTemp],
            target |-> [a |-> ToDisplayUnit(Temp.slider, FALSE), b |-> Temp.pre],
            swOn |-> [s \in Sw |-> FALSE],
            swAvail |-> [s \in Sw |-> TRUE],
            sensorEnd |-> [a |-> 2, b |-> NoEnd]]
  /\ hist.offline["a"]

\* C13: however get-or-create calls for one instance interleave, the end
\* persisted in the past included, one timer object at most is constructed
\* for the instance and it is the one the registry holds.
C13_OneTimer ==
  \A i \in Inst :
    /\ hist.created[i] <= 1
    /\ Cardinality(TimersOf(i)) <= 1
    /\ \A k \in TimersOf(i) : mem.timers[i] \in {NoTimer, k}

\* The attempts of async_restore_scheduler_snapshot that returned in the last
\* step with the given outcome.
Restores(outcome) ==
  {j \in 1..Len(ev) : ev[j].type = "restore" /\ ev[j].outcome = outcome}

SwitchCalls(calls) ==
  {n \in 1..Len(calls) : calls[n].svc \in {"switch.turn_on", "switch.turn_off"}}

\* C14: a restore attempt that finds a snapshot entity without a usable state
\* calls neither switch.turn_on nor switch.turn_off, leaves the stored
\* snapshot as it is, and leaves one retry callback scheduled for the
\* instance: a new one if none was scheduled, the one that was otherwise; the
\* flag the retry will pass is the flag pending before, if any, or the
\* attempt's own expired_while_offline.
C14_Deferral ==
  \A j \in Restores("deferred") :
    LET r == ev[j]
        i == r.i
    IN /\ \E s \in DOMAIN r.snapshot.m : ~ent.swAvail[s]
       /\ SwitchCalls(r.calls) = {}
       /\ r.snapshot.has /\ r.after.disk = r.disk
       /\ mem.restore_unsub[i]
       /\ mem.call_later[i].retry = 1
       /\ r.call_later.retry \in {0, 1}
       /\ mem.restore_pending[i] =
            [has |-> TRUE, v |-> (r.pending.has /\ r.pending.v) \/ r.exp]

\* A deferral with expired_while_offline false merged into a scheduled retry
\* that holds true.
C14_Witness ==
  \E j \in Restores("deferred") :
    /\ ev[j].call_later.retry = 1
    /\ ev[j].pending.has /\ ev[j].pending.v
    /\ ~ev[j].exp

\* The restore attempts that went through to the end in the last step, with
\* nothing else having run since their coroutine began.
RestoredAlone == {j \in Restores("restored") : ev[j].alone}

\* The bulk switch calls of an attempt are one turn_on for the schedules
\* captured on and one turn_off for the others, where there are any.
BulkCallsMatch(r) ==
  LET m == r.snapshot.m
  IN /\ \A n \in CallsOf(r.calls, "switch.turn_on") : r.calls[n].targets = ToTurnOn(m)
     /\ \A n \in CallsOf(r.calls, "switch.turn_off") : r.calls[n].targets = ToTurnOff(m)
     /\ Count(r.calls, "switch.turn_on") = (IF ToTurnOn(m) # {} THEN 1 ELSE 0)
     /\ Count(r.calls, "switch.turn_off") = (IF ToTurnOff(m) # {} THEN 1 ELSE 0)

\* The snapshot of the attempt is gone and every captured schedule is as it
\* was captured.
RestoredState(r) ==
  /\ disk.sched[r.i] = NoSnapshot
  /\ \A s \in DOMAIN r.snapshot.m : ent.swOn[s] = (r.snapshot.m[s] = "on")

\* C15: a restore of a captured snapshot, every entity of it available and
\* both flags off, makes one bulk call for each non-empty partition and no
\* other external call, leaves every captured schedule in its captured state
\* and deletes the snapshot.
C15_CaptureRestore ==
  \A j \in RestoredAlone :
    LET r == ev[j]
    IN /\ BulkCallsMatch(r)
       /\ \A n \in 1..Len(r.calls) :
            r.calls[n].svc \in {"switch.turn_on", "switch.turn_off", "save_sched"}
       /\ RestoredState(r)

\* C15 as the code has it: after the bulk calls the restore calls
\* scheduler.run_action once for each schedule captured on, in order; an
\* attempt of an offline expiry that has not waited for the stabilize delay
\* makes no call and queues the wait.
C15_Amended ==
  /\ \A j \in RestoredAlone :
       LET r == ev[j]
           bulk == SwitchCalls(r.calls)
           acts == CallsOf(r.calls, "scheduler.run_action")
       IN /\ BulkCallsMatch(r)
          /\ \A n \in 1..Len(r.calls) :
               r.calls[n].svc \in {"switch.turn_on", "switch.turn_off",
                                   "scheduler.run_action", "save_sched"}
          /\ \A n \in 1..Len(r.calls) : r.calls[n].ok \/ n \in acts
          /\ {r.calls[n].targets : n \in acts} = {{s} : s \in ToTurnOn(r.snapshot.m)}
          /\ Cardinality(acts) = Cardinality(ToTurnOn(r.snapshot.m))
          /\ \A n \in acts : \A b \in bulk : b < n
          /\ \A n \in CallsOf(r.calls, "switch.turn_on") :
               \A b \in CallsOf(r.calls, "switch.turn_off") : n < b
          /\ RestoredState(r)
          /\ ~r.exp \/ r.skip
  /\ \A j \in Restores("stabilize") \cup Restores("stabilize_queued") :
       ev[j].exp /\ ~ev[j].skip /\ ev[j].calls = <<>>

\* The snapshot found at the process start has been restored and a second
\* one, captured since with a schedule on and a schedule off, has been
\* restored by the user's next operation.
C15_Witness ==
  \E j \in RestoredAlone :
    /\ ToTurnOn(ev[j].snapshot.m) # {}
    /\ ToTurnOff(ev[j].snapshot.m) # {}
    /\ ev[j].via = "service"
    /\ hist.offline[ev[j].i]
    /\ ops.user = 2 /\ ops.fault = 0

\* C16: a restore attempt for an instance whose entry is not in the scheduler
\* snapshot store makes no service call and no store save, schedules no
\* retry and leaves the three stores as they are; this is so in particular
\* for an attempt that loads the store after the removal of the instance
\* cleared a captured snapshot.
C16_NoSnapshotNoOp ==
  \A j \in Restores("no_snapshot") :
    LET r == ev[j]
    IN /\ r.calls = <<>>
       /\ r.snapshot = NoSnapshot
       /\ r.after.disk = r.disk
       /\ r.after.call_later = r.call_later

\* An attempt that a pending callback started finds nothing because the
\* removal, the user's only operation, has cleared the snapshot that was
\* stored.
C16_Witness ==
  \E j \in Restores("no_snapshot") :
    /\ ~mem.loaded[ev[j].i]
    /\ ops.user = 1
    /\ \E n \in 1..Len(tasks) :
         /\ tasks[n].frames # <<>>
         /\ tasks[n].frames[1].fn = "remove_entry"
         /\ tasks[n].frames[1].had
         /\ tasks[n].frames[1].pc \in {"temp_load", "temp_save"}

\* The last call a coroutine or an attempt made is a bulk switch call that
\* raised.
BulkCallRaised(calls) ==
  /\ calls # <<>>
  /\ calls[Len(calls)].svc \in {"switch.turn_on", "switch.turn_off"}
  /\ ~calls[Len(calls)].ok

\* C17: a restore attempt whose switch.turn_on or switch.turn_off call raises
\* saves nothing (the snapshot it loaded stays stored), leaves one retry
\* callback scheduled with the pending flag merged as a deferral for
\* unavailable entities does, and a finish_boost whose restore failed so
\* returns normally.
C17_BulkFailure ==
  /\ \A j \in Restores("failed") :
       LET r == ev[j]
       IN /\ BulkCallRaised(r.calls)
          /\ \A n \in 1..Len(r.calls) :
               r.calls[n].svc \in {"switch.turn_on", "switch.turn_off"}
          /\ r.snapshot.has
          /\ r.after.disk = r.disk
          /\ r.after.unsub
          /\ r.after.call_later.retry = 1
          /\ r.call_later.retry \in {0, 1}
          /\ r.after.pending = [has |-> TRUE, v |-> (r.pending.has /\ r.pending.v) \/ r.exp]
  /\ \A j \in DoneOf("finish_boost") :
       BulkCallRaised(ev[j].calls) => ev[j].ok /\ Restores("failed") # {}

\* The turn_off call of the restore that finish_boost awaits raises after the
\* turn_on call went through; finish_boost returns and the snapshot is still
\* stored.
C17_Witness ==
  \E j \in Restores("failed"), k \in DoneOf("finish_boost") :
    /\ ev[k].ok
    /\ BulkCallRaised(ev[k].calls)
    /\ Len(ev[j].calls) = 2
    /\ disk.sched[ev[j].i] = ev[j].snapshot
    /\ mem.call_later[ev[j].i].retry = 1

\* The attempts that returned in the last step because a flag was on.
Skipped == Restores("boost_active") \cup Restores("override")

\* C18: a restore attempt, whatever started it, that finds the boost-active
\* or the schedule-override flag on when it begins returns at once: it makes
\* no call, leaves the stores as they are, leaves no restore-pending flag
\* for the instance and schedules no callback; an attempt that went further
\* found both flags off.
C18_FlagsFirst ==
  /\ \A j \in Skipped :
       LET r == ev[j]
       IN /\ r.on
          /\ r.calls = <<>>
          /\ r.snapshot = NoSnapshot
          /\ r.after.disk = r.disk
          /\ r.after.pending = NoPending
          /\ r.after.call_later = r.call_later
          /\ r.after.unsub = (r.call_later.retry > 0)
  /\ \A j \in 1..Len(ev) : ev[j].type = "restore" /\ j \notin Skipped => ~ev[j].on

\* A restore deferred after an offline expiry is abandoned: the boost was
\* started again before the delayed callback ran, the attempt returns and
\* nothing is scheduled for the instance, the snapshot still stored.
C18_Witness ==
  \E j \in Restores("boost_active") :
    /\ ev[j].via \in {"retry", "stabilize"}
    /\ ev[j].sched.has
    /\ mem.call_later[ev[j].i] = NoCallLater
    /\ mem.restore_pending[ev[j].i] = NoPending

\* The override case: the switch is turned on while finish_boost, which read
\* it off, is on its way to the restore.
C18_WitnessOverride == \E j \in Restores("override") : ev[j].sched.has

\* A retry of the scheduler restore of instance a is scheduled.
RetryScheduled == mem.call_later["a"].retry > 0

\* Every scheduler switch is available, both flags of instance a are off and
\* the instance has not been removed.
RestoreFavoured ==
  /\ \A s \in Sw : ent.swAvail[s]
  /\ ~ent.boostActive["a"]
  /\ ~ent.override["a"]
  /\ mem.loaded["a"]

\* The snapshot of instance a is gone from the store and no delayed callback
\* of the instance is waiting.
RestoreSettled ==
  /\ ~disk.sched["a"].has
  /\ mem.call_later["a"] = NoCallLater
  /\ mem.restore_pending["a"] = NoPending

\* C19: when a retry of the restore is scheduled and from then on every
\* scheduler switch stays available, both flags stay off and the instance
\* stays installed, then eventually the snapshot is restored and deleted and
\* no retry is scheduled (service calls raise only a bounded number of
\* times, so from some point on the bulk operations succeed).
C19_DeferredRestoreCompletes == (RetryScheduled /\ []RestoreFavoured) ~> RestoreSettled

\* A restore deferred because the switches were unavailable is completed by
\* a delayed attempt once they are available: the captured states are back,
\* the snapshot deleted, nothing scheduled.
C19_Witness ==
  /\ RestoreSettled
  /\ RestoreFavoured
  /\ ops.user = 0
  /\ ops.fault = 1
  /\ \E j \in Restores("restored") :
       /\ ev[j].via \in {"retry", "stabilize"}
       /\ \A s \in DOMAIN ev[j].snapshot.m : StateOf([ent |-> ent], s) = ev[j].snapshot.m[s]

\* The attempts that asked for a retry in the last step.
RetryRequests == Restores("deferred") \cup Restores("failed")

\* C20: in every state an instance has at most one restore retry, at most
\* one stabilize wait and at most one retrigger waiting, each held by the
\* handle the integration keeps for it; an attempt that asks for a retry
\* while one is waiting, or for a stabilize wait while one is queued,
\* registers nothing (the retry's pending flag is merged).
C20_OnePerKind ==
  /\ \A i \in Inst :
       /\ mem.call_later[i].retry = (IF mem.restore_unsub[i] THEN 1 ELSE 0)
       /\ mem.call_later[i].stabilize = (IF mem.stabilize_unsub[i].set THEN 1 ELSE 0)
       /\ mem.call_later[i].retrigger = (IF mem.retrigger_unsub[i] THEN 1 ELSE 0)
  /\ \A j \in RetryRequests :
       ev[j].call_later.retry = 1 =>
         /\ ev[j].after.call_later = ev[j].call_later
         /\ ev[j].after.pending.has
         /\ ev[j].after.pending.v = ((ev[j].pending.has /\ ev[j].pending.v) \/ ev[j].exp)
  /\ \A j \in Restores("stabilize_queued") :
       /\ ev[j].after.call_later = ev[j].call_later
       /\ ev[j].call_later.stabilize = 1 \/ ev[j].i \in mem.stabilize_pending

\* A bulk call of a restore raises while a retry is already waiting for the
\* instance: one retry waits afterwards.
C20_Witness ==
  \E j \in RetryRequests :
    /\ ev[j].call_later.retry = 1
    /\ mem.call_later[ev[j].i].retry = 1
    /\ mem.restore_unsub[ev[j].i]

\* The delayed operations of instance i in hass.data m: none is registered,
\* no handle is held and no flag is pending.
NothingPending(m, i) ==
  /\ m.call_later[i] = NoCallLater
  /\ ~m.restore_unsub[i] /\ ~m.stabilize_unsub[i].set /\ ~m.retrigger_unsub[i]
  /\ m.restore_pending[i] = NoPending
  /\ i \notin m.stabilize_pending /\ i \notin m.retrigger_pending

\* What hass.data holds for the delayed operations of instance i.
PendingOf(m, i) ==
  <<m.call_later[i], m.restore_unsub[i], m.stabilize_unsub[i], m.retrigger_unsub[i],
    m.restore_pending[i], i \in m.stabilize_pending, i \in m.retrigger_pending>>

\* The cancellation applied to the present hass.data.
CancelledNow(i) ==
  async_cancel_pending_scheduler_callbacks(
    [mem |-> mem, cur |-> [path |-> "none"], out |-> <<>>], i)

\* A coroutine of the override switch that found the switch in the other
\* position: it did not return at once.
EffectiveToggle(d) ==
  /\ d.root.fn \in {"override_turn_on", "override_turn_off"}
  /\ d.pre.set => d.pre.ent.override[d.root.i] = (d.root.fn = "override_turn_off")

\* C21: in every state, cancelling the delayed operations of an instance
\* leaves none registered, no handle and no flag for it, whatever was there,
\* leaves those of the other instance as they are, and a second cancellation
\* changes nothing more; the step in which a coroutine cancels ends with
\* nothing registered for the instance, so no cancelled callback can fire;
\* every removal of an instance (which clears its snapshot) and every
\* effective turn-on or turn-off of the override switch has cancelled.
C21_CancelAll ==
  /\ \A i \in Inst :
       LET c == CancelledNow(i)
       IN /\ NothingPending(c.mem, i)
          /\ \A j \in Inst \ {i} : PendingOf(c.mem, j) = PendingOf(mem, j)
          /\ async_cancel_pending_scheduler_callbacks(c, i).mem = c.mem
  /\ \A j \in 1..Len(ev) : ev[j].type = "cancel_all" => NothingPending(mem, ev[j].i)
  /\ \A j \in 1..Len(ev) :
       /\ ev[j].type = "done"
       /\ EffectiveToggle(ev[j]) \/ (ev[j].root.fn = "remove_entry" /\ ev[j].ok)
       => ev[j].path = "cancel_all"

\* The removal of the instance cancels a retry that was waiting.
C21_Witness ==
  \E j \in 1..Len(ev) :
    /\ ev[j].type = "cancel_all"
    /\ ev[j].held.retry = 1
    /\ ~mem.loaded[ev[j].i]
    /\ NothingPending(mem, ev[j].i)

\* C22: when a restore attempt has gone through (bulk calls made, snapshot
\* entry deleted and the document saved), nothing is registered, no handle
\* is held and no flag is pending for the instance.
C22_NothingAfterRestore ==
  \A j \in Restores("restored") : NothingPending(mem, ev[j].i)

\* The removal of instance i has completed: the entry is gone from hass.data
\* and async_remove_entry has returned.
Destroyed(i) ==
  /\ ~mem.loaded[i]
  /\ \A n \in 1..Len(tasks) : ~(tasks[n].root.fn = "remove_entry" /\ tasks[n].root.i = i)

\* Nothing of instance i is left in the three stores.
Purged(i) ==
  /\ disk.timer[i] = NoEnd
  /\ ~disk.sched[i].has
  /\ disk.temp[i] = NoTemp

\* The registry holds no timer for instance i and no timer object of the
\* instance has its due-time callback armed.
TimerDiscarded(i) ==
  /\ mem.timers[i] = NoTimer
  /\ \A k \in 1..Len(mem.tobj) : mem.tobj[k].inst = i => ~mem.tobj[k].armed

\* C23: from the return of async_remove_entry on, the three stores hold no
\* record of the instance, the registry holds no timer for it and none of
\* its timers is armed, and no delayed operation is registered, held or
\* pending for it, whatever was in flight for the instance at the removal.
C23_DestroyPurges ==
  \A i \in Inst : Destroyed(i) => Purged(i) /\ TimerDiscarded(i) /\ NothingPending(mem, i)

\* The timer objects of instance i that async_unload_entry has unloaded.
UnloadedTimers(i) ==
  {k \in 1..Len(mem.tobj) : mem.tobj[k].inst = i /\ mem.tobj[k].unloaded}

\* The step that unloads an instance leaves the three stores as they are,
\* takes the timer out of the registry, and leaves no timer of the instance
\* armed or notifying a listener.
UnloadFrame ==
  [][\A i \in Inst : mem.loaded[i] /\ ~mem'.loaded[i] =>
       /\ disk' = disk
       /\ mem'.timers[i] = NoTimer
       /\ \A k \in 1..Len(mem'.tobj) :
            mem'.tobj[k].inst = i => ~mem'.tobj[k].armed /\ ~mem'.tobj[k].listening]_vars

\* A timer built by the registry has the end that the store holds.
RebuiltFromStore ==
  \A j \in 1..Len(ev) :
    ev[j].type = "timer_created" =>
      ev[j].end = (IF ev[j].stored = NoEnd THEN NoEnd ELSE utc_from_timestamp(ev[j].stored))

\* C24: a timer that async_unload_entry has unloaded fires no
\* thermostat_boost_timer_finished event afterwards, and each timer the
\* registry builds (also after an unload) has the end that the store holds.
C24_UnloadedTimerSilent ==
  /\ \A j \in 1..Len(ev) :
       ev[j].type = "timer_finished" => ~mem.tobj[ev[j].k].unloaded
  /\ RebuiltFromStore

\* C25: a document that a coroutine of one instance saves holds, for every
\* other instance, the record that the store held just before the save:
\* no write for an instance adds, removes, brings back or changes the timer
\* end, the scheduler snapshot or the temperature snapshot of another one,
\* and none drops what a concurrent coroutine has written for another one.
C25_Isolation ==
  \A j \in 1..Len(ev) :
    ev[j].type = "saved" =>
      \A b \in Inst \ {ev[j].i} : ev[j].new[b] = ev[j].old[b]

\* C26: the runs of the finish steps and of the restore policy that the
\* finished timers of an instance have started, through the event listener
\* or through the fallback callback, are no more than the finishes of its
\* timers: each finish is executed at most once.
C26_OncePerFinish ==
  \A i \in Inst : hist.executed[i] <= Len(hist.fired[i])

\* The step changes nothing but the list of coroutines, which has lost
\* `gone` entries, and ends a coroutine that has made no call.
AbortedStep(gone) ==
  /\ UNCHANGED <<now, celsius, disk, ent, mem, hist>>
  /\ Len(tasks') = Len(tasks) - gone
  /\ Len(ev') = 1
  /\ ev'[1].type = "done"
  /\ ev'[1].calls = <<>>

C27_MissingStep ==
  /\ \A c \in StartInputs :
       ~mem.loaded[c.i] /\ StartBoost(c.i, c.time, c.temperature_c) =>
         /\ AbortedStep(0)
         /\ ev'[1].root.fn = "start_boost" /\ ~ev'[1].ok
  /\ \A i \in Inst :
       ~mem.loaded[i] /\ FinishBoost(i) =>
         /\ AbortedStep(0)
         /\ ev'[1].path = (IF i \in mem.finish_in_progress THEN "dropped" ELSE "no_entry")
         /\ ev'[1].path = "no_entry" => i \notin mem'.finish_in_progress
  /\ \A n \in 1..Len(tasks) :
       (/\ tasks[n].root.fn = "finish_boost"
        /\ ~mem.loaded[tasks[n].root.i]
        /\ TaskStart(n)) =>
         /\ AbortedStep(1)
         /\ ev'[1].path = (IF tasks[n].root.i \in mem.finish_in_progress
                            THEN "dropped" ELSE "no_entry")
         /\ ev'[1].path = "no_entry" => tasks[n].root.i \notin mem'.finish_in_progress

\* C27: start_boost and finish_boost for an instance that hass.data does
\* not hold end in their first step and change no store, no entity, no
\* timer and nothing in memory, make no call and start nothing: start_boost
\* raises, finish_boost returns with the instance out of the in-progress
\* set (also when a timer finish delivers it after the instance has gone);
\* a finish_boost that finds an earlier one of the instance still running
\* is dropped by the guard, which then stays with the earlier one.
C27_MissingInstance == [][C27_MissingStep]_vars

\* finish_boost has just returned for an instance that has been removed.
C27_Witness ==
  \E j \in DoneOf("finish_boost") :
    /\ ev[j].path = "no_entry"
    /\ ev[j].via = "service"
    /\ ~mem.loaded[ev[j].root.i]
    /\ ev[j].root.i \notin mem.finish_in_progress

\* start_boost has just raised for an instance that has been removed.
C27_WitnessStart ==
  \E j \in DoneOf("start_boost") : ~ev[j].ok /\ ~mem.loaded[ev[j].root.i]

\* The snapshot that a capture with the given name has to store: the
\* matching switches that have a state, each with its state.
ExpectedSnapshot(r) ==
  LET match == {s \in Sw : r.avail[s] /\ _matches_tag(SwTags[s], LowerStr(r.name))}
  IN [s \in match |-> IF r.on[s] THEN "on" ELSE "off"]

\* C28: when async_create_scheduler_scene returns, the store holds for the
\* instance exactly the matching available switches with the states they
\* had when the capture began, whatever it held before, and the returned
\* entity ids are exactly those of the stored snapshot; with no matching
\* switch the stored snapshot is empty.
C28_FullReplacement ==
  \A j \in 1..Len(ev) :
    ev[j].type = "captured" =>
      /\ ev[j].result = DOMAIN ExpectedSnapshot(ev[j])
      /\ ev[j].stored.has
      /\ ev[j].stored.m = ExpectedSnapshot(ev[j])

\* The finish_boost whose return ev[j] records made a climate.set_temperature
\* call that raised.
TemperatureCallRaised(j) ==
  \E c \in 1..Len(ev[j].calls) :
    ev[j].calls[c].svc = "climate.set_temperature" /\ ~ev[j].calls[c].ok

\* Something is left that will run for instance i: a delayed callback, a
\* pending flag, or a coroutine of the instance.
WillRunAgain(i) ==
  \/ ~NothingPending(mem, i)
  \/ \E n \in 1..Len(tasks) : tasks[n].root.fn \in {"finish_boost", "restore_sched"}
                              /\ tasks[n].root.i = i

\* C29: when async_finish_boost_for_entry returns after its
\* climate.set_temperature call has raised, the temperature snapshot of the
\* instance is still stored and a retry is in place for the instance (a
\* delayed callback, a pending flag or a coroutine still to run).
C29_TemperatureRetry ==
  \A j \in DoneOf("finish_boost") :
    TemperatureCallRaised(j) =>
      /\ disk.temp[ev[j].root.i] # NoTemp
      /\ WillRunAgain(ev[j].root.i)

\* A timer with no end, in memory and in the store, and no callback armed.
IdleTimer == [end |-> NoEnd, stored |-> NoEnd, armed |-> FALSE]

\* C30: when BoostTimer.async_cancel returns, the timer has no end in
\* memory, the store holds no end for the instance and no due-time callback
\* is armed; cancelling a timer that is already so changes nothing; and a
\* timer whose last operation was a cancel that has returned fires no
\* thermostat_boost_timer_finished event.
C30_CancelEffective ==
  /\ \A j \in 1..Len(ev) : ev[j].type = "cancelled" => ev[j].after = IdleTimer
  /\ \A j \in 1..Len(ev) :
       ev[j].type = "timer_finished" => ~mem.tobj[ev[j].k].cancelled

\* The timers that the registry has just built from a stored end that is
\* still in the future.
BuiltActive ==
  {j \in 1..Len(ev) : /\ ev[j].type = "timer_created"
                      /\ ev[j].stored # NoEnd
                      /\ utc_from_timestamp(ev[j].stored) > now}

\* C31: when async_get_timer returns a timer that it has built from a
\* stored end that is still in the future, the timer is the registered one
\* of its instance, has the stored end, and is the one timer of the
\* instance with a due-time callback armed, at that end; and a timer whose
\* instance had no expired end at the process start fires
\* thermostat_boost_timer_finished only once the end it
\* was armed for has been reached (a start with no duration left aside,
\* which is a finish).
C31_FutureEndArmed ==
  /\ \A j \in BuiltActive :
       LET k == ev[j].k
           i == ev[j].i
       IN /\ ev[j].registered = k
          /\ ev[j].timer.end = utc_from_timestamp(ev[j].stored)
          /\ ev[j].timer.armedAt = ev[j].timer.end
          /\ ev[j].armed = {k}
  /\ \A j \in 1..Len(ev) :
       (/\ ev[j].type = "timer_finished"
        /\ ~hist.offline[ev[j].i]
        /\ \A m \in 1..Len(ev) : ev[m].type = "timer_started" => ev[m].k # ev[j].k) =>
         /\ mem.tobj[ev[j].k].armedAt # NoEnd
         /\ now >= mem.tobj[ev[j].k].armedAt

\* The process started before the stored end and the first async_get_timer
\* of the instance has just returned its armed timer.
C31_Witness ==
  \E j \in BuiltActive :
    /\ hist.created[ev[j].i] = 1
    /\ ~hist.offline[ev[j].i]
    /\ ev[j].armed = {ev[j].k}
    /\ now < ev[j].timer.end

\* The timer armed at the process start has reached its end and fired.
C31_WitnessFired ==
  \E j \in 1..Len(ev) :
    /\ ev[j].type = "timer_finished"
    /\ ~hist.offline[ev[j].i]
    /\ hist.created[ev[j].i] = 1
    /\ now = mem.tobj[ev[j].k].armedAt

\* The registered timer of instance i has an end.
TimerHasEnd(i) ==
  /\ mem.timers[i] # NoTimer
  /\ mem.tobj[mem.timers[i]].end # NoEnd

\* C32: whenever no coroutine is in flight or queued, an instance whose
\* boost_active switch is on has a timer with an end.
C32_FlagNeedsTimer ==
  \A i \in Inst : tasks = <<>> /\ mem.loaded[i] /\ ent.boostActive[i] => TimerHasEnd(i)

\* No coroutine is in flight or queued, both flags of every instance are
\* off and no retry or stabilize wait of a restore is scheduled.
AllSessionsOver ==
  /\ tasks = <<>>
  /\ \A i \in Inst :
       /\ ~ent.boostActive[i] /\ ~ent.override[i]
       /\ mem.call_later[i] = NoCallLater
       /\ ~mem.restore_unsub[i] /\ ~mem.stabilize_unsub[i].set
       /\ mem.restore_pending[i] = NoPending

\* The captures that returned in the last step having replaced a snapshot
\* that no restore had consumed.
Recaptured == {j \in 1..Len(ev) : ev[j].type = "captured" /\ ev[j].prior.has
                                   /\ ev[j].result # {}}

\* C33: every scheduler switch was on before the first boost and only the
\* integration changes it; when no service call has failed, no switch has
\* changed its availability and the process has not stopped, once every
\* session is over each switch is on again; and a capture that replaces an
\* unconsumed snapshot keeps a schedule on that the snapshot had on.
C33_RoundTrip ==
  /\ ops.fault = 0 /\ AllSessionsOver => \A s \in Sw : ent.swOn[s]
  /\ \A j \in Recaptured :
       \A s \in DOMAIN ev[j].prior.m \cap DOMAIN ev[j].stored.m :
         ev[j].prior.m[s] = "on" => ev[j].stored.m[s] = "on"

\* What the restore attempts did in the last step: a bulk turn_on issued, a
\* save of the document without the entry of the instance.
RestoreActs(step) == {j \in 1..Len(ev) : ev[j].type = "restore_acts" /\ ev[j].step = step}

\* C34: when a snapshot other than the one a restore attempt has loaded is
\* in the store (one captured since the load), the attempt does not save its
\* document, which would delete or overwrite that snapshot, and it issues its
\* bulk turn_on only while boost_active and schedule_override are off.
C34_NoStaleRestore ==
  \A j \in RestoreActs("turn_on") \cup RestoreActs("save") :
    ev[j].stored.has /\ ev[j].stored # ev[j].loaded =>
      ev[j].step = "turn_on" /\ ~ev[j].flag

\* C35: the async_finish that a due-time callback has started clears no end
\* that is still to come (the end of a countdown started since), and the
\* finish of a boost that a finished timer has delivered, by its event or by
\* its fallback callback, cancels no timer that has an end (a countdown
\* started since).
C35_NoStaleFinish ==
  /\ \A j \in 1..Len(ev) :
       ev[j].type = "timer_finished" /\ ev[j].via = "due" =>
         ev[j].ended = NoEnd \/ ev[j].ended <= now
  /\ \A j \in 1..Len(ev) :
       ev[j].type = "cancelled" /\ ev[j].via \in {"event", "callback"} =>
         ev[j].before.end = NoEnd

\* C36: the thermostat is at its pre-boost target before the first boost and
\* only the integration changes it; the temperature snapshot of an instance
\* is never a setpoint that a boost has applied.
C36_SnapshotIsPreBoost ==
  \A i \in Inst : disk.temp[i] \notin BoostSetpoints

\* C37: when the only timer finish of an instance so far is the one of an
\* end that passed while the process was down, the finish of the boost that
\* one of its two deliveries has run through the restore policy was called
\* with expired_while_offline true.
C37_OfflineFlagDelivered ==
  \A j \in FinishDecided :
    LET i == ev[j].root.i
    IN hist.offline[i] /\ hist.fired[i] = <<TRUE>> /\ ev[j].via \in {"event", "callback"}
         => ev[j].root.exp

\* The turn-offs of the override switch that returned in the last step,
\* nothing else having run since the call.
TurnedOff == {j \in DoneOf("override_turn_off") : ev[j].pre.set}

\* The restore attempts of instance i that returned in the last step.
RestoreAttempts(i) == {m \in 1..Len(ev) : ev[m].type = "restore" /\ ev[m].i = i}

\* C38: a turn-off of the override switch while the boost is active clears
\* the flag, starts no restore, makes no scheduler call and leaves the
\* scheduler snapshots and switches as they were; a turn-off while no boost
\* is active clears the flag and makes one restore attempt, which finds both
\* flags off; a turn-off of a switch that is off makes no call, starts no
\* restore, cancels nothing and leaves stores, entities and timers as they
\* were.
C38_OverrideTurnOff ==
  \A j \in TurnedOff :
    LET i == ev[j].root.i
        p == ev[j].pre
    IN /\ p.ent.override[i] /\ p.ent.boostActive[i] =>
            /\ ~ent.override[i]
            /\ RestoreAttempts(i) = {}
            /\ ev[j].calls = <<>>
            /\ disk = p.disk
            /\ ent.swOn = p.ent.swOn
       /\ p.ent.override[i] /\ ~p.ent.boostActive[i] =>
            /\ ~ent.override[i]
            /\ Cardinality(RestoreAttempts(i)) = 1
            /\ \A m \in RestoreAttempts(i) : ~ev[m].on /\ ev[m].via = "service"
       /\ ~p.ent.override[i] =>
            /\ RestoreAttempts(i) = {}
            /\ ev[j].calls = <<>>
            /\ \A m \in 1..Len(ev) : ev[m].type # "cancel_all"
            /\ disk = p.disk /\ ent = p.ent
            /\ mem.tobj = p.tobj /\ mem.timers = p.timers

\* The override switch has been turned off during a boost, the snapshot of
\* the boost still in the store.
C38_Witness ==
  \E j \in TurnedOff :
    /\ ev[j].pre.ent.override[ev[j].root.i] /\ ev[j].pre.ent.boostActive[ev[j].root.i]
    /\ disk.sched[ev[j].root.i].has

\* The override switch has been turned off with no boost active and its
\* restore has put the captured schedules back.
C38_WitnessRestore ==
  \E j \in TurnedOff :
    /\ ev[j].pre.ent.override[ev[j].root.i] /\ ~ev[j].pre.ent.boostActive[ev[j].root.i]
    /\ \E m \in RestoreAttempts(ev[j].root.i) : ev[m].outcome = "restored"

\* The override switch was off when it was turned off.
C38_WitnessOff ==
  \E j \in TurnedOff : ~ev[j].pre.ent.override[ev[j].root.i] /\ ev[j].ok

\* A step leaves the loaded map of the registry as it is except for the
\* entries it saves.
C39_Step ==
  mem.regInit /\ mem'.regInit =>
    \A i \in Inst :
      mem'.regData[i] # mem.regData[i] =>
        \E j \in 1..Len(ev') :
          /\ ev'[j].type = "saved" /\ ev'[j].store = "save_timer" /\ ev'[j].i = i

FinishEnded == {j \in DoneOf("finish_boost") : ev[j].path # "dropped"}

\* C40: the in-progress guard of an instance is held only while a
\* finish_boost of that instance is running; a finish_boost that ends past
\* the guard, by a return on any path or by an exception of a service call,
\* leaves the instance out of the set; and a finish_boost is dropped only
\* while another one of the same instance is running, whatever the guard of
\* the other instance is.
C40_GuardReleased ==
  /\ \A i \in mem.finish_in_progress : Finishing(i) # {}
  /\ \A j \in FinishEnded : ev[j].root.i \notin mem.finish_in_progress
  /\ \A j \in DoneOf("finish_boost") :
       ev[j].path = "dropped" => Finishing(ev[j].root.i) # {}

\* A finish_boost has ended by the exception of a service call, its guard
\* released.
C40_Witness ==
  \E j \in FinishEnded : ~ev[j].ok /\ ev[j].root.i \notin mem.finish_in_progress

\* A finish_boost of instance b has run to its end while the guard of
\* instance a is held.
C40_WitnessOther ==
  \E j \in FinishEnded :
    /\ ev[j].root.i = "b" /\ ev[j].ok
    /\ ev[j].path \in {"temperature", "scheduler"}
    /\ "a" \in mem.finish_in_progress

====
